---- MODULE Spec2Model ----
(***************************************************************************)
(* Session/lap segmentation of the iRacing telemetry tool.                 *)
(*                                                                         *)
(*   src/src/storage.py  SessionStorage  (session record, laps, finalize)  *)
(*   src/src/capture.py  TelemetryCapture (process_telemetry, run loop)    *)
(*   src/src/storage.py  list_all_sessions, load_session (directory scan)  *)
(*   src/src/exporter.py DataExporter (distance-aligned lap comparison)    *)
(*                                                                         *)
(* Python's None is the empty tuple and a present value v is <<v>>, so     *)
(* that fields which may be None compare without mixing types.  Lap dicts  *)
(* are Python objects shared by reference between storage.current_lap and  *)
(* session_data["laps"]; they live in storage.heap and are named by index. *)
(***************************************************************************)
EXTENDS Integers, Sequences, FiniteSets, TLC

\* ---- bounds of the model ------------------------------------------------
MaxPolls == 3
MaxLap == 2
MaxLapTime == 2
MaxSessionNum == 1
MaxCalls == 6
MaxFiles == 2
GridPoints == 3
MaxSamples == 3
MaxRequest == 3
MaxThreads == 2
MaxGuiPolls == 2
MaxFailedSaves == 1

\* ---- Python None / present values ---------------------------------------
None == <<>>

Some(x) == <<x>>

Val(o) == o[1]

Opt(S) == {None} \cup {Some(x) : x \in S}

\* ======================= src/src/storage.py ==============================

\* SessionStorage.__init__
NewStorage ==
    [session_id |-> None, session_data |-> None, current_lap |-> None,
     current_lap_number |-> None, metadata |-> None, heap |-> <<>>]

\* the lap dict created by _start_new_lap
NewLap(lap_number) ==
    [lap_number |-> lap_number, lap_time |-> None, telemetry |-> <<>>]

\* SessionStorage._start_new_lap
start_new_lap(s, lap_number) ==
    [s EXCEPT !.current_lap_number = Some(lap_number),
              !.heap = Append(s.heap, NewLap(lap_number)),
              !.current_lap = Some(Len(s.heap) + 1)]

\* the metadata dict of lines 57-67
NewMetadata(uuid) == [session_id |-> uuid, total_laps |-> 0]

\* the session_data dict of lines 69-72: its "metadata" is the dict that
\* self.metadata names (detached is None), its "laps" an empty list.
\* detached holds the dict under "metadata" when self.metadata has come to
\* name another one.
NewSessionData == [detached |-> None, laps |-> <<>>]

\* SessionStorage.initialize_session; uuid stands for str(uuid.uuid4()).
\* The lap objects of a replaced session become unreachable, so the heap
\* starts empty again.
initialize_session(s, uuid) ==
    start_new_lap(
        [s EXCEPT !.session_id = Some(uuid),
                  !.metadata = Some(NewMetadata(uuid)),
                  !.session_data = Some(NewSessionData),
                  !.current_lap_number = Some(0),
                  !.heap = <<>>],
        0)

\* SessionStorage.add_telemetry_sample
add_telemetry_sample(s, sample) ==
    IF s.current_lap = None
    THEN s
    ELSE [s EXCEPT !.heap[Val(s.current_lap)].telemetry = Append(@, sample)]

\* variant of append_current_lap: total_laps is not refreshed
append_current_lap_stale(s) ==
    [s EXCEPT !.session_data =
                  Some([Val(s.session_data) EXCEPT
                           !.laps = Append(@, Val(s.current_lap))])]

\* session_data["laps"].append(current_lap) (lines 131, 183)
append_lap(s) ==
    [s EXCEPT !.session_data =
                  Some([Val(s.session_data) EXCEPT
                           !.laps = Append(@, Val(s.current_lap))])]

\* metadata["total_laps"] = len(session_data["laps"]) (lines 134, 184)
count_laps(s) ==
    [s EXCEPT !.metadata =
                  Some([Val(s.metadata) EXCEPT
                           !.total_laps = Len(Val(s.session_data).laps)])]

\* session_data["laps"].append(current_lap); metadata["total_laps"] = len(...)
append_current_lap(s) == count_laps(append_lap(s))

\* variant of complete_lap: the lap time is not stored in the lap
complete_lap_no_time(s, lap_time) ==
    IF s.current_lap = None
    THEN s
    ELSE LET s2 == append_current_lap(s)
         IN  start_new_lap(s2, Val(s2.current_lap_number) + 1)

\* variant of complete_lap: the completed lap stays the open lap
complete_lap_still_open(s, lap_time) ==
    IF s.current_lap = None
    THEN s
    ELSE [append_current_lap(
              [s EXCEPT !.heap[Val(s.current_lap)].lap_time = Some(lap_time)])
          EXCEPT !.current_lap_number = Some(Val(s.current_lap_number) + 1)]

\* SessionStorage.complete_lap
complete_lap(s, lap_time) ==
    IF s.current_lap = None
    THEN s
    ELSE LET s1 == [s EXCEPT !.heap[Val(s.current_lap)].lap_time =
                                 Some(lap_time)]
             s2 == append_current_lap(s1)
         IN  start_new_lap(s2, Val(s2.current_lap_number) + 1)

\* what complete_lap returns: the number of the lap completed, None when
\* there is no open lap
completed_lap(s) ==
    IF s.current_lap = None THEN None ELSE s.current_lap_number

\* session_data["metadata"]: the dict that self.metadata names, unless
\* self.metadata was given another dict since
session_metadata(s) ==
    IF Val(s.session_data).detached = None
    THEN Val(s.metadata)
    ELSE Val(Val(s.session_data).detached)

\* variant of session_json: only the laps that have a lap time are written
session_json_timed(s) ==
    [metadata |-> session_metadata(s),
     laps |-> SelectSeq([i \in 1..Len(Val(s.session_data).laps) |->
                            s.heap[Val(s.session_data).laps[i]]],
                        LAMBDA lap : lap.lap_time # None)]

\* what json.dump(self.session_data) writes: the values behind the references
session_json(s) ==
    [metadata |-> session_metadata(s),
     laps |-> [i \in 1..Len(Val(s.session_data).laps) |->
                  s.heap[Val(s.session_data).laps[i]]]]

\* variant of include_open_lap: an open lap without samples is included too
include_open_lap_empty(s, include_incomplete_lap) ==
    /\ include_incomplete_lap
    /\ s.current_lap # None

\* variant of include_open_lap: the flag is ignored
include_open_lap_always(s, include_incomplete_lap) ==
    /\ s.current_lap # None
    /\ Len(s.heap[Val(s.current_lap)].telemetry) > 0

\* the test of line 181
include_open_lap(s, include_incomplete_lap) ==
    /\ include_incomplete_lap
    /\ s.current_lap # None
    /\ Len(s.heap[Val(s.current_lap)].telemetry) > 0

\* line 165: self.session_id[:8] raises TypeError when the storage has
\* laps to write and session_id is None
finalize_raises(s, include_incomplete_lap) ==
    /\ s.session_data # None
    /\ s.session_id = None
    /\ \/ include_open_lap(s, include_incomplete_lap)
       \/ Len(Val(s.session_data).laps) > 0

\* SessionStorage.finalize_session: the storage afterwards and the file
\* written (None when it returns None or raises).  The path is determined
\* by the session's timestamp and id, here the id.
finalize_session(s, include_incomplete_lap) ==
    IF s.session_data = None
    THEN [storage |-> s, file |-> None]
    ELSE LET s1 == IF include_open_lap(s, include_incomplete_lap)
                   THEN append_current_lap(
                            [s EXCEPT !.heap[Val(s.current_lap)].lap_time =
                                          None])
                   ELSE s
         IN  IF Len(Val(s1.session_data).laps) = 0
                \/ finalize_raises(s, include_incomplete_lap)
             THEN [storage |-> s1, file |-> None]
             ELSE [storage |-> s1,
                   file |-> Some([path |-> Val(s1.session_id),
                                  data |-> session_json(s1)])]

\* finalize_session gets as far as the directory and the file (lines
\* 191-200): there is a session and, after line 184, a lap to write
finalize_writes(s, include_incomplete_lap) ==
    /\ s.session_data # None
    /\ \/ include_open_lap(s, include_incomplete_lap)
       \/ Len(Val(s.session_data).laps) > 0

\* the storage after a finalize_session in which mkdir (line 192), open
\* (line 199) or json.dump (line 200) raises: the open lap has been appended
\* (lines 181-184)
finalize_session_failed(s, include_incomplete_lap) ==
    finalize_session(s, include_incomplete_lap).storage

\* the file at the path when json.dump (line 200) raises, or is cut short,
\* after open(filepath, 'w') (line 199) has created or emptied it: no record
\* can be read from it; data is the record that was being written
truncated(file) ==
    [path |-> file.path, data |-> file.data, truncated |-> TRUE]

\* the file holds the record that finalize_session wrote
complete(file) == "truncated" \notin DOMAIN file

\* what a write of file that raises leaves behind: nothing when mkdir or
\* open raises (or the file name cannot be built, line 165), the truncated
\* file when json.dump raises
left_by_failed_write(file) ==
    IF file = None THEN {None} ELSE {None, Some(truncated(Val(file)))}

\* the files written so far, in order, and one more if a file was written
write(d, file) == IF file = None THEN d ELSE Append(d, Val(file))

\* SessionStorage.reset
reset(s) == NewStorage

\* ---- the storage between two statements of a method ----------------------
\* KeyboardInterrupt is raised between two statements of the main thread,
\* wherever it is.  Each operator gives the states of the storage between
\* the statements of one method, the states before the first and after the
\* last left out.

\* reset, after line 206, 207, 208 and 209; lap objects that nothing names
\* any more are dropped from the heap
reset_cuts(s) ==
    {[s EXCEPT !.session_id = None],
     [s EXCEPT !.session_id = None, !.session_data = None],
     [s EXCEPT !.session_id = None, !.session_data = None,
               !.current_lap = None, !.heap = <<>>],
     [NewStorage EXCEPT !.metadata = s.metadata]}

\* session_data when self.metadata is given a new dict (line 57): its
\* "metadata" goes on naming the old one
detach(s) ==
    IF s.session_data = None \/ s.metadata = None
    THEN s.session_data
    ELSE Some([Val(s.session_data) EXCEPT !.detached = s.metadata])

\* initialize_session, after line 54, 57, 69 and 75; line 87 of
\* _start_new_lap repeats the assignment of line 75
initialize_session_cuts(s, uuid) ==
    {[s EXCEPT !.session_id = Some(uuid)],
     [s EXCEPT !.session_id = Some(uuid),
               !.metadata = Some(NewMetadata(uuid)),
               !.session_data = detach(s)],
     [s EXCEPT !.session_id = Some(uuid),
               !.metadata = Some(NewMetadata(uuid)),
               !.session_data = Some(NewSessionData)],
     [s EXCEPT !.session_id = Some(uuid),
               !.metadata = Some(NewMetadata(uuid)),
               !.session_data = Some(NewSessionData),
               !.current_lap_number = Some(0)]}

\* the lap time of the open lap is set (lines 128, 182)
set_lap_time(s, lap_time) ==
    [s EXCEPT !.heap[Val(s.current_lap)].lap_time = lap_time]

\* complete_lap, after line 128, 131, 134 and 87
complete_lap_cuts(s, lap_time) ==
    IF s.current_lap = None
    THEN {}
    ELSE {set_lap_time(s, Some(lap_time)),
          append_lap(set_lap_time(s, Some(lap_time))),
          append_current_lap(set_lap_time(s, Some(lap_time))),
          [append_current_lap(set_lap_time(s, Some(lap_time))) EXCEPT
              !.current_lap_number = Some(Val(s.current_lap_number) + 1)]}

\* finalize_session before the file is written, after line 182, 183 and
\* 184
finalize_session_cuts(s, include_incomplete_lap) ==
    IF s.session_data # None /\ include_open_lap(s, include_incomplete_lap)
    THEN {set_lap_time(s, None),
          append_lap(set_lap_time(s, None)),
          append_current_lap(set_lap_time(s, None))}
    ELSE {}

\* ---- the JSON text of a record ---------------------------------------------
\* json.dump of a value that may be None: null or the number
json_dump_optional(v) ==
    IF v = None THEN [null |-> TRUE] ELSE [number |-> Val(v)]

\* json.load of null or a number
json_load_optional(j) ==
    IF "null" \in DOMAIN j THEN None ELSE Some(j.number)

\* json.dump(self.session_data, f) (line 200): the text of the file
json_dump(data) ==
    [metadata |-> data.metadata,
     laps |-> [i \in 1..Len(data.laps) |->
                  [lap_number |-> data.laps[i].lap_number,
                   lap_time |-> json_dump_optional(data.laps[i].lap_time),
                   telemetry |-> data.laps[i].telemetry]]]

\* json.load(f) of a text that json.dump wrote (lines 234, 287)
json_load(text) ==
    [metadata |-> text.metadata,
     laps |-> [i \in 1..Len(text.laps) |->
                  [lap_number |-> text.laps[i].lap_number,
                   lap_time |-> json_load_optional(text.laps[i].lap_time),
                   telemetry |-> text.laps[i].telemetry]]]

\* ---- the files under data/sessions ----------------------------------------
\* a file is [path, kind, text]; kind says what reading it does:
\*   "json"        holds the JSON text of a session record
\*   "truncated"   text that is not JSON: json.load raises JSONDecodeError
\*   "unreadable"  open() raises an IOError (no permission, a directory)
\*   "not_utf8"    bytes that are not UTF-8: f.read() raises
\*                 UnicodeDecodeError inside json.load
\*   "not_object"  JSON that is not an object, such as []: json.load returns
\*                 a list and session_data.get raises AttributeError
raised_by(file) ==
    CASE file.kind = "json" -> None
      [] file.kind = "truncated" -> Some("JSONDecodeError")
      [] file.kind = "unreadable" -> Some("IOError")
      [] file.kind = "not_utf8" -> Some("UnicodeDecodeError")
      [] file.kind = "not_object" -> Some("AttributeError")

\* variant of caught: every exception is caught
caught_all(exception) == TRUE

\* except (json.JSONDecodeError, IOError) (lines 257, 294)
caught(exception) == exception \in {"JSONDecodeError", "IOError"}

\* lines 237-242: the sum of the lap times that are truthy
RECURSIVE total_duration(_)
total_duration(laps) ==
    IF laps = <<>> THEN 0
    ELSE (IF laps[1].lap_time # None /\ Val(laps[1].lap_time) # 0
          THEN Val(laps[1].lap_time) ELSE 0)
         + total_duration(Tail(laps))

\* lines 244-255: the summary of one record (the other fields are copied
\* from the metadata in the same way)
summary(file, session_data) ==
    [filepath |-> file.path,
     session_id |-> session_data.metadata.session_id,
     timestamp |-> session_data.metadata.timestamp,
     total_laps |-> session_data.metadata.total_laps,
     duration |-> total_duration(session_data.laps)]

\* lines 231-259: the summaries in scan order, or the exception that ends
\* the scan
RECURSIVE scan_sessions(_)
scan_sessions(files) ==
    IF files = <<>> THEN [raised |-> None, sessions |-> <<>>]
    ELSE IF raised_by(files[1]) = None
    THEN [scan_sessions(Tail(files)) EXCEPT
             !.sessions = IF scan_sessions(Tail(files)).raised = None
                          THEN <<summary(files[1],
                                         json_load(Val(files[1].text)))>> \o @
                          ELSE @]
    ELSE IF caught(Val(raised_by(files[1])))
    THEN scan_sessions(Tail(files))
    ELSE [raised |-> raised_by(files[1]), sessions |-> <<>>]

\* the place of x in a list sorted newest first: after the entries that are
\* as new or newer (the sort is stable)
RECURSIVE insert_newest_first(_, _)
insert_newest_first(sorted, x) ==
    IF sorted = <<>> THEN <<x>>
    ELSE IF sorted[1].timestamp >= x.timestamp
    THEN <<sorted[1]>> \o insert_newest_first(Tail(sorted), x)
    ELSE <<x>> \o sorted

\* sessions.sort(key=lambda x: x['timestamp'], reverse=True) (line 262)
RECURSIVE sort_newest_first(_)
sort_newest_first(sessions) ==
    IF sessions = <<>> THEN <<>>
    ELSE insert_newest_first(
             sort_newest_first(SubSeq(sessions, 1, Len(sessions) - 1)),
             sessions[Len(sessions)])

\* the outcome of list_all_sessions after the scan
listed(scan) ==
    IF scan.raised # None THEN scan
    ELSE [scan EXCEPT !.sessions = sort_newest_first(@)]

\* list_all_sessions over the files in scan order
list_all_sessions(files) == listed(scan_sessions(files))

\* variant of id_matches: only the full identifier matches
id_matches_exact(stored_id, session_id) == stored_id = session_id

\* line 291: stored_id == session_id or stored_id.startswith(session_id)
id_matches(stored_id, session_id) ==
    \/ stored_id = session_id
    \/ /\ Len(session_id) <= Len(stored_id)
       /\ SubSeq(stored_id, 1, Len(session_id)) = session_id

\* load_session over the files in scan order: the exception that ends the
\* scan, or the pair returned
RECURSIVE load_session(_, _)
load_session(session_id, files) ==
    IF files = <<>>
    THEN [raised |-> None, session_data |-> None, filepath |-> None]
    ELSE IF raised_by(files[1]) = None
    THEN IF id_matches(json_load(Val(files[1].text)).metadata.session_id,
                       session_id)
         THEN [raised |-> None,
               session_data |-> Some(json_load(Val(files[1].text))),
               filepath |-> Some(files[1].path)]
         ELSE load_session(session_id, Tail(files))
    ELSE IF caught(Val(raised_by(files[1])))
    THEN load_session(session_id, Tail(files))
    ELSE [raised |-> raised_by(files[1]), session_data |-> None,
          filepath |-> None]

\* ======================= src/src/capture.py ==============================

\* TelemetryCapture.__init__
NewCapture ==
    [is_connected |-> FALSE, storage |-> NewStorage,
     current_session_num |-> None, current_lap |-> None,
     best_lap_time |-> None]

\* the provider's frozen snapshot read by one poll; info says whether
\* SessionInfo, WeekendInfo and DriverInfo are all available
Snapshots(t) ==
    [SessionNum : Opt(0..MaxSessionNum), Lap : Opt(0..MaxLap),
     LapLastLapTime : Opt(0..MaxLapTime), SessionTime : {t},
     info : BOOLEAN]

\* TelemetryCapture.get_telemetry
get_telemetry(ir) ==
    [session_num |-> ir.SessionNum, lap |-> ir.Lap,
     lap_last_lap_time |-> ir.LapLastLapTime, time |-> ir.SessionTime]

\* TelemetryCapture.get_session_metadata
get_session_metadata(ir) ==
    IF ~ir.info THEN None ELSE Some([session_num |-> ir.SessionNum])

\* variant of initialize_new_session: the observed lap counter is kept
initialize_new_session_keeping_lap(c, ir, uuid) ==
    IF get_session_metadata(ir) = None
    THEN [capture |-> c, ret |-> FALSE]
    ELSE [capture |->
             [c EXCEPT !.storage = initialize_session(c.storage, uuid),
                       !.current_session_num =
                           Val(get_session_metadata(ir)).session_num,
                       !.best_lap_time = None],
          ret |-> TRUE]

\* variant of initialize_new_session: the session number is not recorded
initialize_new_session_unrecorded(c, ir, uuid) ==
    IF get_session_metadata(ir) = None
    THEN [capture |-> c, ret |-> FALSE]
    ELSE [capture |->
             [c EXCEPT !.storage = initialize_session(c.storage, uuid),
                       !.current_lap = None,
                       !.best_lap_time = None],
          ret |-> TRUE]

\* TelemetryCapture.initialize_new_session
initialize_new_session(c, ir, uuid) ==
    LET metadata == get_session_metadata(ir)
    IN  IF metadata = None
        THEN [capture |-> c, ret |-> FALSE]
        ELSE [capture |->
                 [c EXCEPT !.storage = initialize_session(c.storage, uuid),
                           !.current_session_num = Val(metadata).session_num,
                           !.current_lap = None,
                           !.best_lap_time = None],
              ret |-> TRUE]

\* TelemetryCapture.save_current_session (the summary and the auto-export
\* change no state of the capture)
save_current_session(c, include_incomplete_lap) ==
    IF c.storage.session_data = None
    THEN [capture |-> c, file |-> None]
    ELSE LET f == finalize_session(c.storage, include_incomplete_lap)
         IN  [capture |-> [c EXCEPT !.storage = f.storage], file |-> f.file]

\* save_current_session when finalize_session raises (line 243)
save_current_session_failed(c, include_incomplete_lap) ==
    [c EXCEPT !.storage =
                  finalize_session_failed(c.storage, include_incomplete_lap)]

\* line 323
session_changed(session_num, current_session_num) ==
    session_num # None /\ session_num # current_session_num

\* lines 324-327: the previous session is saved without its open lap and
\* the storage is reset, if a session number is recorded
save_previous(c, changed) ==
    IF changed /\ c.current_session_num # None
    THEN [save_current_session(c, FALSE) EXCEPT
             !.capture.storage = reset(@)]
    ELSE [capture |-> c, file |-> None]

\* the outcome of a call of initialize_new_session within process_telemetry
opening(i, file) ==
    [capture |-> i.capture, ret |-> i.ret, file |-> file, asked |-> TRUE]

\* lines 329-331: a new session is opened on a session change
open_changed(p, changed, ir, uuid) ==
    IF changed
    THEN opening(initialize_new_session(p.capture, ir, uuid), p.file)
    ELSE [capture |-> p.capture, ret |-> TRUE, file |-> p.file,
          asked |-> FALSE]

\* lines 333-336: a session is opened if there is none
ensure_session(q, ir, uuid) ==
    IF q.ret /\ q.capture.storage.session_data = None
    THEN opening(initialize_new_session(q.capture, ir, uuid), q.file)
    ELSE q

\* lines 321-336 of process_telemetry: session change and session open;
\* ret is FALSE where the code returns False, file is what the save wrote,
\* asked says whether initialize_new_session was called
check_session(c, telemetry, ir, uuid) ==
    ensure_session(
        open_changed(
            save_previous(c, session_changed(telemetry.session_num,
                                             c.current_session_num)),
            session_changed(telemetry.session_num, c.current_session_num),
            ir, uuid),
        ir, uuid)

\* variant of lap_increased: any other lap counter counts as a rollover
lap_changed(current_lap_num, current_lap) == current_lap_num # current_lap

\* line 343
lap_increased(current_lap_num, current_lap) == current_lap_num > current_lap

\* line 346
valid_lap_time(lap_time) == lap_time # None /\ Val(lap_time) > 0

\* variant of is_new_best: an equal time is a new best
is_new_best_or_equal(best_lap_time, lap_time) ==
    best_lap_time = None \/ lap_time <= Val(best_lap_time)

\* line 351
is_new_best(best_lap_time, lap_time) ==
    best_lap_time = None \/ lap_time < Val(best_lap_time)

\* no lap event
Quiet == [rollover |-> FALSE, completed |-> FALSE, is_best |-> FALSE]

\* lines 338-365 of process_telemetry: lap change; rollover says that the
\* branch of line 343 was taken, completed and is_best are what the
\* lap-completion line prints
check_lap(c, telemetry) ==
    LET quiet == Quiet
    IN  IF telemetry.lap = None
        THEN [capture |-> c, event |-> quiet]
        ELSE IF c.current_lap = None
        THEN [capture |-> [c EXCEPT !.current_lap = telemetry.lap],
              event |-> quiet]
        ELSE IF lap_increased(Val(telemetry.lap), Val(c.current_lap))
        THEN IF valid_lap_time(telemetry.lap_last_lap_time)
             THEN LET lap_time == Val(telemetry.lap_last_lap_time)
                      is_best == is_new_best(c.best_lap_time, lap_time)
                  IN  [capture |->
                          [c EXCEPT !.storage = complete_lap(@, lap_time),
                                    !.best_lap_time =
                                        IF is_best THEN Some(lap_time) ELSE @,
                                    !.current_lap = telemetry.lap],
                       event |-> [rollover |-> TRUE, completed |-> TRUE,
                                 is_best |-> is_best]]
             ELSE [capture |-> [c EXCEPT !.current_lap = telemetry.lap],
                   event |-> [quiet EXCEPT !.rollover = TRUE]]
        ELSE [capture |-> c, event |-> quiet]

\* lines 368-383: the stored sample (the other channels are copied the same
\* way and take no part in segmentation)
make_sample(telemetry) == [time |-> telemetry.time]

\* variant of store_sample: the sample goes to the lap that was open before
\* the lap check
store_sample_in_previous_lap(l, s, telemetry) ==
    [capture |-> [l.capture EXCEPT
                     !.storage.heap[Val(s.capture.storage.current_lap)]
                          .telemetry = Append(@, make_sample(telemetry))],
     ret |-> TRUE, file |-> s.file, asked |-> s.asked, event |-> l.event]

\* lines 384-386: the sample is stored in the open lap
store_sample(l, s, telemetry) ==
    [capture |-> [l.capture EXCEPT !.storage =
                     add_telemetry_sample(@, make_sample(telemetry))],
     ret |-> TRUE, file |-> s.file, asked |-> s.asked, event |-> l.event]

\* the outcome of process_telemetry when no session could be opened
rejected(s) ==
    [capture |-> s.capture, ret |-> FALSE, file |-> s.file,
     asked |-> s.asked, event |-> Quiet]

\* lines 338-386 of process_telemetry, after the session check s
after_session(s, telemetry) ==
    IF ~s.ret
    THEN rejected(s)
    ELSE store_sample(check_lap(s.capture, telemetry), s, telemetry)

\* TelemetryCapture.process_telemetry
process_telemetry(c, telemetry, ir, uuid) ==
    after_session(check_session(c, telemetry, ir, uuid), telemetry)

\* ---- an iteration of run cut short by Ctrl+C -----------------------------
\* A cut is the capture between two statements of an iteration, the file
\* the iteration has written so far, and whether session_data is still the
\* dict it was when the iteration began.
Cut(c, file, kept) == [capture |-> c, file |-> file, kept |-> kept]

\* the cuts with the storages S in the capture c
StorageCuts(c, S, file, kept) ==
    {Cut([c EXCEPT !.storage = s], file, kept) : s \in S}

\* lines 325-327: inside json.dump with the file opened and not yet
\* written (storage.py 199-200), after the save, inside reset, and after it
save_previous_cuts(c, changed) ==
    IF changed /\ c.current_session_num # None
    THEN {Cut(c, left, TRUE) :
             left \in left_by_failed_write(save_current_session(c, FALSE).file)}
         \cup {Cut(c, save_current_session(c, FALSE).file, TRUE)}
         \cup StorageCuts(c, {[c.storage EXCEPT !.session_id = None]},
                          save_current_session(c, FALSE).file, TRUE)
         \cup StorageCuts(c, (reset_cuts(c.storage) \cup {reset(c.storage)})
                                \ {[c.storage EXCEPT !.session_id = None]},
                          save_current_session(c, FALSE).file, FALSE)
    ELSE {}

\* the states inside initialize_session in which session_data is still the
\* dict of the session before (after line 54 and after line 57)
old_session_cuts(s, uuid) ==
    {[s EXCEPT !.session_id = Some(uuid)],
     [s EXCEPT !.session_id = Some(uuid),
               !.metadata = Some(NewMetadata(uuid)),
               !.session_data = detach(s)]}

\* initialize_new_session with the metadata available: inside
\* initialize_session, after it (line 217), after line 219 and after line
\* 220; line 222 completes it.  kept tells whether session_data was still
\* the dict of the beginning of the iteration when the call was made
initialize_new_session_cuts(c, ir, uuid, file, kept) ==
    IF get_session_metadata(ir) = None
    THEN {}
    ELSE StorageCuts(c, old_session_cuts(c.storage, uuid), file, kept)
         \cup StorageCuts(c, (initialize_session_cuts(c.storage, uuid)
                                 \cup {initialize_session(c.storage, uuid)})
                                \ old_session_cuts(c.storage, uuid),
                          file, FALSE)
         \cup {Cut([c EXCEPT
                       !.storage = initialize_session(c.storage, uuid),
                       !.current_session_num =
                           Val(get_session_metadata(ir)).session_num],
                   file, FALSE),
               Cut([c EXCEPT
                       !.storage = initialize_session(c.storage, uuid),
                       !.current_session_num =
                           Val(get_session_metadata(ir)).session_num,
                       !.current_lap = None],
                   file, FALSE),
               Cut(initialize_new_session(c, ir, uuid).capture, file, FALSE)}

\* lines 323-336: the cuts of the session check; p is the outcome of lines
\* 324-327 and q that of lines 329-331.  The call of line 330 comes after
\* the reset of line 327 when a session number was recorded; the call of
\* line 335 is made only when nothing was saved or opened before it
check_session_cuts(c, changed, p, q, ir, uuid) ==
    save_previous_cuts(c, changed)
    \cup (IF changed
          THEN initialize_new_session_cuts(p.capture, ir, uuid, p.file,
                                           c.current_session_num = None)
          ELSE {})
    \cup (IF q.ret /\ q.capture.storage.session_data = None
          THEN initialize_new_session_cuts(q.capture, ir, uuid, q.file,
                                           ~changed)
          ELSE {})

\* lines 338-365: the cuts of the lap check: inside complete_lap, after it
\* (line 347), after the best lap time is set (line 352), and after the
\* lap counter is recorded (lines 342, 365)
check_lap_cuts(c, telemetry, file, kept) ==
    IF telemetry.lap = None
    THEN {}
    ELSE IF c.current_lap = None
    THEN {Cut(check_lap(c, telemetry).capture, file, kept)}
    ELSE IF lap_increased(Val(telemetry.lap), Val(c.current_lap))
    THEN IF valid_lap_time(telemetry.lap_last_lap_time)
         THEN StorageCuts(
                  c,
                  complete_lap_cuts(c.storage,
                                    Val(telemetry.lap_last_lap_time))
                  \cup {complete_lap(c.storage,
                                     Val(telemetry.lap_last_lap_time))},
                  file, kept)
              \cup {Cut([check_lap(c, telemetry).capture EXCEPT
                            !.current_lap = c.current_lap],
                        file, kept),
                    Cut(check_lap(c, telemetry).capture, file, kept)}
         ELSE {Cut(check_lap(c, telemetry).capture, file, kept)}
    ELSE {}

\* the cuts of process_telemetry whose session check came out as s
after_session_cuts(c, s, telemetry) ==
    IF ~s.ret
    THEN {}
    ELSE check_lap_cuts(s.capture, telemetry, s.file,
                        s.capture.storage.session_id = c.storage.session_id)

\* process_telemetry cut short: every state between two of its statements
\* and of the statements of the methods it calls, but the state it began
\* in and the state it returns in
process_telemetry_cuts(c, telemetry, ir, uuid) ==
    (check_session_cuts(
         c, session_changed(telemetry.session_num, c.current_session_num),
         save_previous(c, session_changed(telemetry.session_num,
                                          c.current_session_num)),
         open_changed(
             save_previous(c, session_changed(telemetry.session_num,
                                              c.current_session_num)),
             session_changed(telemetry.session_num, c.current_session_num),
             ir, uuid),
         ir, uuid)
     \cup after_session_cuts(c, check_session(c, telemetry, ir, uuid),
                             telemetry))
    \ {Cut(c, None, TRUE),
        Cut(process_telemetry(c, telemetry, ir, uuid).capture,
            process_telemetry(c, telemetry, ir, uuid).file,
            process_telemetry(c, telemetry, ir, uuid).capture
                .storage.session_id = c.storage.session_id)}

\* lines 411-421 cut short: inside the save of line 414 before the file is
\* written and inside json.dump with the file opened and not yet written,
\* after the save, inside the reset of line 415, and after lines 415, 416,
\* 417 and 418
lost_connection_cuts(c) ==
    (StorageCuts(c, finalize_session_cuts(c.storage, TRUE), None, TRUE)
    \cup {Cut(save_current_session(c, TRUE).capture, left, TRUE) :
             left \in left_by_failed_write(save_current_session(c, TRUE).file)}
    \cup {Cut(save_current_session(c, TRUE).capture,
              save_current_session(c, TRUE).file, TRUE)}
    \cup StorageCuts(c, {[save_current_session(c, TRUE).capture.storage
                             EXCEPT !.session_id = None]},
                     save_current_session(c, TRUE).file, TRUE)
    \cup StorageCuts(c, (reset_cuts(save_current_session(c, TRUE)
                                       .capture.storage)
                            \cup {NewStorage})
                           \ {[save_current_session(c, TRUE).capture.storage
                                  EXCEPT !.session_id = None]},
                     save_current_session(c, TRUE).file, FALSE)
    \cup {Cut([c EXCEPT !.storage = NewStorage,
                        !.current_session_num = None],
              save_current_session(c, TRUE).file, FALSE),
          Cut([c EXCEPT !.storage = NewStorage,
                        !.current_session_num = None,
                        !.current_lap = None],
              save_current_session(c, TRUE).file, FALSE),
          Cut([c EXCEPT !.storage = NewStorage,
                        !.current_session_num = None,
                        !.current_lap = None,
                        !.best_lap_time = None],
              save_current_session(c, TRUE).file, FALSE)})
    \ {Cut(c, None, TRUE)}

\* the except and finally clauses of run (lines 440-450) after a cut, the
\* directory and the file being writable: the session is saved with its
\* open lap and the provider disconnected; when the save raises (line 165)
\* the disconnect is not reached
interrupted(cut) ==
    [capture |->
         [save_current_session(cut.capture, TRUE).capture EXCEPT
             !.is_connected =
                 IF finalize_raises(cut.capture.storage, TRUE)
                 THEN @ ELSE FALSE],
     files |-> IF save_current_session(cut.capture, TRUE).file = None
               THEN IF cut.file = None THEN <<>> ELSE <<Val(cut.file)>>
               ELSE IF cut.file = None
               THEN <<Val(save_current_session(cut.capture, TRUE).file)>>
               ELSE <<Val(cut.file),
                      Val(save_current_session(cut.capture, TRUE).file)>>,
     kept |-> cut.kept]

\* the except and finally clauses of run after a cut when the save of line
\* 449 raises: the open lap is appended, the write leaves nothing or a
\* truncated file (left) and the disconnect is not reached
interrupted_failed(cut, left) ==
    [capture |-> save_current_session_failed(cut.capture, TRUE),
     files |-> write(write(<<>>, cut.file), left),
     kept |-> cut.kept]

\* what the except and finally clauses of run can make of a cut
interrupted_outcomes(cut) ==
    {interrupted(cut)}
    \cup (IF finalize_writes(cut.capture.storage, TRUE)
          THEN {interrupted_failed(cut, left) :
                   left \in left_by_failed_write(
                                save_current_session(cut.capture, TRUE).file)}
          ELSE {})

\* ======================= src/src/exporter.py =============================
\* Distances are counted in grid steps: the grid of line 327,
\* np.arange(0, 1.0, 0.001), is 0 .. GridPoints - 1 and a lap_dist_pct of
\* 1.0 is GridPoints.  An interpolated value is the exact fraction num/den
\* with den > 0.
target_distances == [i \in 1..GridPoints |-> i - 1]

Whole(v) == [num |-> v, den |-> 1]

\* numpy's linear_search(key, arr, len, i0), indices counted from 0
RECURSIVE linear_search(_, _, _)
linear_search(key, arr, i) ==
    IF i < Len(arr) /\ key >= arr[i + 1]
    THEN linear_search(key, arr, i + 1)
    ELSE i - 1

\* numpy's binary_search_with_guess for up to 4 points, where it searches
\* linearly from index 1: -1 below arr[0], len above arr[len - 1]
binary_search_with_guess(key, arr) ==
    IF key > arr[Len(arr)] THEN Len(arr)
    ELSE IF key < arr[1] THEN -1
    ELSE linear_search(key, arr, 1)

\* the value numpy's interp gives at x once the search has returned j
interp_at(x, xp, fp, j) ==
    IF j = -1 THEN Whole(fp[1])
    ELSE IF j = Len(xp) THEN Whole(fp[Len(xp)])
    ELSE IF j = Len(xp) - 1 THEN Whole(fp[j + 1])
    ELSE IF xp[j + 1] = x THEN Whole(fp[j + 1])
    ELSE [num |-> (fp[j + 2] - fp[j + 1]) * (x - xp[j + 1])
                      + fp[j + 1] * (xp[j + 2] - xp[j + 1]),
          den |-> xp[j + 2] - xp[j + 1]]

\* np.interp(x, xp, fp) at one point x; xp is used in the stored order
np_interp(x, xp, fp) ==
    IF Len(xp) = 1 THEN Whole(fp[1])
    ELSE interp_at(x, xp, fp, binary_search_with_guess(x, xp))

\* DataExporter._interpolate_telemetry: the channels at every grid point
\* (speed stands for the channels written as they are, gear is converted on
\* output), or None for a lap without samples
interpolate_telemetry(telemetry, targets) ==
    IF telemetry = <<>> THEN None
    ELSE Some([i \in 1..Len(targets) |->
                  [speed |-> np_interp(targets[i],
                                       [k \in 1..Len(telemetry) |->
                                           telemetry[k].lap_dist_pct],
                                       [k \in 1..Len(telemetry) |->
                                           telemetry[k].speed]),
                   gear |-> np_interp(targets[i],
                                      [k \in 1..Len(telemetry) |->
                                          telemetry[k].lap_dist_pct],
                                      [k \in 1..Len(telemetry) |->
                                          telemetry[k].gear])]])

\* lines 303-307: the first lap of the session with this lap number
find_lap(laps, lap_index) ==
    IF \E i \in 1..Len(laps) : laps[i].lap_number = lap_index
    THEN Some(laps[CHOOSE i \in 1..Len(laps) :
                       /\ laps[i].lap_number = lap_index
                       /\ \A j \in 1..(i - 1) :
                             laps[j].lap_number # lap_index])
    ELSE None

\* line 309: the lap was found and has telemetry
lap_usable(lap_data) ==
    lap_data # None /\ Val(lap_data).telemetry # <<>>

\* variant of collect_laps: a lap that is missing or empty is left out
RECURSIVE collect_laps_skipping(_, _)
collect_laps_skipping(session_data, lap_numbers) ==
    IF lap_numbers = <<>> THEN Some(<<>>)
    ELSE IF ~lap_usable(find_lap(session_data.laps, lap_numbers[1] - 1))
    THEN collect_laps_skipping(session_data, Tail(lap_numbers))
    ELSE Some(<<[lap_number |-> lap_numbers[1],
                 telemetry |-> Val(find_lap(session_data.laps,
                                            lap_numbers[1] - 1)).telemetry]>>
              \o Val(collect_laps_skipping(session_data, Tail(lap_numbers))))

\* lines 296-316: the telemetry of the requested laps, or None as soon as
\* one of them is missing or empty
RECURSIVE collect_laps(_, _)
collect_laps(session_data, lap_numbers) ==
    IF lap_numbers = <<>> THEN Some(<<>>)
    ELSE IF ~lap_usable(find_lap(session_data.laps, lap_numbers[1] - 1))
    THEN None
    ELSE IF collect_laps(session_data, Tail(lap_numbers)) = None
    THEN None
    ELSE Some(<<[lap_number |-> lap_numbers[1],
                 telemetry |-> Val(find_lap(session_data.laps,
                                            lap_numbers[1] - 1)).telemetry]>>
              \o Val(collect_laps(session_data, Tail(lap_numbers))))

\* variant of enough_laps: one lap is enough
enough_laps_one(laps_data) == Len(laps_data) >= 1

\* lines 318-324: at least two laps to compare
enough_laps(laps_data) == Len(laps_data) # 0 /\ ~(Len(laps_data) < 2)

\* Python's int() of a fraction: the digits after the point are dropped
int(v) ==
    IF v.num >= 0 THEN v.num \div v.den ELSE -((-v.num) \div v.den)

\* variant of csv_row: every group of columns is filled from the first
\* interpolated lap
csv_row_first_lap(interpolated_laps, targets, i) ==
    [distance_pct |-> targets[i],
     distance |-> [num |-> targets[i] * 1000, den |-> GridPoints],
     laps |-> [k \in 1..Len(interpolated_laps) |->
                  [lap_number |-> interpolated_laps[k].lap_number,
                   speed |-> interpolated_laps[1].data[i].speed,
                   gear |-> int(interpolated_laps[1].data[i].gear)]]]

\* lines 380-401: the row of grid point i, one group of columns for each
\* interpolated lap
csv_row(interpolated_laps, targets, i) ==
    [distance_pct |-> targets[i],
     distance |-> [num |-> targets[i] * 1000, den |-> GridPoints],
     laps |-> [k \in 1..Len(interpolated_laps) |->
                  [lap_number |-> interpolated_laps[k].lap_number,
                   speed |-> interpolated_laps[k].data[i].speed,
                   gear |-> int(interpolated_laps[k].data[i].gear)]]]

\* line 352: the lap range in the file name, min(lap_numbers) and
\* max(lap_numbers)
lap_range(lap_numbers) ==
    <<CHOOSE m \in 1..Len(lap_numbers) :
          \A k \in 1..Len(lap_numbers) : lap_numbers[m] <= lap_numbers[k],
      CHOOSE m \in 1..Len(lap_numbers) :
          \A k \in 1..Len(lap_numbers) : lap_numbers[k] <= lap_numbers[m]>>

\* lines 326-403: the CSV file written for the collected laps
comparison_csv(laps_data, lap_numbers, targets) ==
    [filepath |-> <<lap_numbers[lap_range(lap_numbers)[1]],
                    lap_numbers[lap_range(lap_numbers)[2]]>>,
     rows |-> [i \in 1..Len(targets) |->
                  csv_row([k \in 1..Len(laps_data) |->
                              [lap_number |-> laps_data[k].lap_number,
                               data |-> Val(interpolate_telemetry(
                                                laps_data[k].telemetry,
                                                targets))]],
                          targets, i)]]

\* the outcome of export_comparison_csv once the laps are collected: the
\* file written, or None where it returns None
compared(laps_data, lap_numbers) ==
    IF laps_data = None THEN None
    ELSE IF ~enough_laps(Val(laps_data)) THEN None
    ELSE Some(comparison_csv(Val(laps_data), lap_numbers, target_distances))

\* DataExporter.export_comparison_csv
export_comparison_csv(session_data, lap_numbers) ==
    compared(collect_laps(session_data, lap_numbers), lap_numbers)

\* Python truth of an optional number: neither None nor 0
truthy(v) == v # None /\ Val(v) # 0

\* lines 114-132 and 135-163 of DataExporter.export_lap_to_csv: the lap
\* with the internal number lap_number - 1 is written with lap_number in
\* the file name and in the lap column; None where it returns None
export_lap_to_csv(session_data, lap_number) ==
    IF ~lap_usable(find_lap(session_data.laps, lap_number - 1))
    THEN None
    ELSE Some([filepath |-> lap_number,
               lap_data |-> Val(find_lap(session_data.laps, lap_number - 1)),
               rows |-> [k \in 1..Len(Val(find_lap(session_data.laps,
                                                   lap_number - 1)).telemetry)
                            |-> [lap |-> lap_number]]])

\* DataExporter.export_complete_session_to_csv: the lap column of the
\* rows of each lap (lines 77-85), or None for a session without laps
export_complete_session_to_csv(session_data) ==
    IF session_data.laps = <<>> THEN None
    ELSE Some([i \in 1..Len(session_data.laps) |->
                  [k \in 1..Len(session_data.laps[i].telemetry) |->
                      [lap |-> session_data.laps[i].lap_number + 1]]])

\* ======================= src/main.py =====================================

\* lines 132-146 of cmd_info: the line printed for one lap
info_row(lap) ==
    [lap |-> lap.lap_number, time |-> lap.lap_time,
     points |-> Len(lap.telemetry)]

\* lines 128-142 of cmd_info: the best lap after the laps from index i on,
\* given the best lap and the best time so far (None is float('inf'))
RECURSIVE info_best(_, _, _, _)
info_best(laps, i, best_lap, best_time) ==
    IF i > Len(laps) THEN best_lap
    ELSE IF /\ laps[i].lap_time # None
            /\ Val(laps[i].lap_time) > 0
            /\ (best_time = None \/ Val(laps[i].lap_time) < Val(best_time))
    THEN info_best(laps, i + 1, Some(laps[i].lap_number), laps[i].lap_time)
    ELSE info_best(laps, i + 1, best_lap, best_time)

\* cmd_info: the lap lines and the lap of the "Best Lap" line
cmd_info(session_data) ==
    [rows |-> [i \in 1..Len(session_data.laps) |->
                  info_row(session_data.laps[i])],
     best_lap |-> info_best(session_data.laps, 1, None, None)]

\* ======================= the lap table of src/gui.py =====================

\* lines 424-434 of _load_session_details: the row of a lap (lap number and
\* the argument of its export button), or None for a lap without time
lap_row(lap) ==
    IF ~truthy(lap.lap_time) THEN None
    ELSE Some([lap_number |-> lap.lap_number + 1, lap_time |-> lap.lap_time])

\* TelemetryGUI._load_session_details: one entry for each lap of the session
load_session_details(session_data) ==
    [i \in 1..Len(session_data.laps) |-> lap_row(session_data.laps[i])]

\* lines 422 and 442-445 of _load_session_details: the least of the truthy
\* lap times and the displayed number of the first lap that has it, or None
\* when no lap has a truthy lap time and the card is not updated
best_lap_card(session_data) ==
    LET laps == session_data.laps
        timed == {i \in 1..Len(laps) : truthy(laps[i].lap_time)}
    IN  IF timed = {} THEN None
        ELSE LET best == CHOOSE i \in timed :
                             /\ \A j \in timed :
                                   Val(laps[i].lap_time) <= Val(laps[j].lap_time)
                             /\ \A j \in timed :
                                   laps[j].lap_time = laps[i].lap_time => i <= j
             IN  Some([value |-> laps[best].lap_time,
                       subtitle |-> laps[best].lap_number + 1])

\* ======================= src/gui.py ======================================

\* line 19: irsdk was imported (src.capture imports it unconditionally)
IRSDK_AVAILABLE == TRUE

\* line 52: queue.Queue() has maxsize 0, which is no limit
maxsize == 0

\* a worker thread as threading.Thread.start() leaves it: _capture_loop has
\* built its own TelemetryCapture (line 579) and waits for the provider.
\* pc is the place the thread has reached: "waiting" in wait_for_iracing
\* (582), "running" at the test of the loop (584), "checked" past that test
\* (585), "processed" after process_telemetry with the item for the queue
\* built (593), "stopping" after the loop (603), "saved" before disconnect
\* (604), "done" when _capture_loop has returned or the thread was killed.
\* item is the dictionary it is about to put; hist is the history of its
\* open session (not program state)
NewThread ==
    [pc |-> "waiting", capture |-> NewCapture, hist |-> <<>>, item |-> None]

\* the attributes set by TelemetryGUI.__init__ before it starts polling
\* (lines 39-60); current_lap_label is the subtitle of the current-lap card,
\* best_lap_label and best_lap_subtitle are the value and the subtitle of
\* the best-lap card; threads are the worker threads ever started, in order,
\* and mainloop is "idle" between handlers, "blocked" while a handler waits
\* on the queue, "closed" once mainloop() has returned
GUIFields ==
    [is_capturing |-> FALSE, is_connected |-> FALSE,
     capture_thread |-> None, telemetry_queue |-> <<>>,
     current_lap_label |-> None, best_lap_label |-> None,
     best_lap_subtitle |-> None,
     threads |-> <<>>, mainloop |-> "idle"]

\* a thread whose _capture_loop has returned: its TelemetryCapture is
\* unreachable
DeadThread ==
    [pc |-> "done", capture |-> NewCapture, hist |-> <<>>, item |-> None]

\* threading.Thread.is_alive: started and _capture_loop has not returned
is_alive(thread) == thread.pc # "done"

\* variant of capture_running: the thread is not looked at
capture_running_unchecked(g) == FALSE

\* line 536
capture_running(g) ==
    g.capture_thread # None /\ is_alive(g.threads[Val(g.capture_thread)])

\* TelemetryGUI._start_capture
start_capture(g) ==
    IF capture_running(g) THEN g
    ELSE IF ~g.is_connected /\ IRSDK_AVAILABLE THEN g
    ELSE [g EXCEPT !.is_capturing = TRUE,
                   !.threads = Append(@, NewThread),
                   !.capture_thread = Some(Len(g.threads) + 1)]

\* TelemetryGUI._stop_capture (the session list is reloaded 2 s later)
stop_capture(g) ==
    [g EXCEPT !.is_capturing = FALSE, !.current_lap_label = None]

\* TelemetryGUI._toggle_capture
toggle_capture(g) ==
    IF g.is_capturing THEN stop_capture(g) ELSE start_capture(g)

\* variant of queue_put: the queue holds one item at most
queue_put_limited(q, item) ==
    IF Len(q) >= 1
    THEN [blocked |-> TRUE, queue |-> q]
    ELSE [blocked |-> FALSE, queue |-> Append(q, item)]

\* queue.Queue.put(item): blocks while a limited queue is full
queue_put(q, item) ==
    IF maxsize > 0 /\ Len(q) >= maxsize
    THEN [blocked |-> TRUE, queue |-> q]
    ELSE [blocked |-> FALSE, queue |-> Append(q, item)]

\* lines 593-597: what the worker hands to the UI after a processed sample
\* (speed is handed over too and never displayed)
queue_item(telemetry, c) ==
    [current_lap |-> telemetry.lap, best_lap_time |-> c.best_lap_time]

\* lines 689-695: the labels after one item of the queue
show(g, data) ==
    [g EXCEPT !.current_lap_label =
                  IF truthy(data.current_lap) THEN data.current_lap ELSE @,
              !.best_lap_label =
                  IF truthy(data.best_lap_time) THEN data.best_lap_time
                  ELSE @]

\* queue.Queue.get(block): on an empty queue it waits if block is set and
\* raises queue.Empty otherwise
get_waits(q, block) == q = <<>> /\ block

\* TelemetryGUI._process_telemetry_queue: get_nowait, which is get(False),
\* until queue.Empty is raised and caught
RECURSIVE process_telemetry_queue(_)
process_telemetry_queue(g) ==
    IF g.telemetry_queue = <<>>
    THEN IF get_waits(g.telemetry_queue, FALSE)
         THEN [g EXCEPT !.mainloop = "blocked"]
         ELSE g
    ELSE process_telemetry_queue(
             show([g EXCEPT !.telemetry_queue = Tail(@)],
                  Head(g.telemetry_queue)))

\* lines 442-445 of _load_session_details: the best-lap card shows the best
\* lap of the selected session, if it has one
show_best_lap(g, card) ==
    IF card = None THEN g
    ELSE [g EXCEPT !.best_lap_label = Val(card).value,
                   !.best_lap_subtitle = Some(Val(card).subtitle)]

\* the file a worker thread is writing while it is in the save of line 603
\* (pc "stopping") or in the save of a session change (pc "checked",
\* capture.py 326), None if it writes none
being_written(thread) ==
    IF thread.pc = "stopping"
    THEN save_current_session(thread.capture, TRUE).file
    ELSE IF thread.pc = "checked"
    THEN save_previous(thread.capture, TRUE).file
    ELSE None

\* TelemetryGUI._start_polling: _check_iracing_connection copies what the
\* provider answers into is_connected, then the queue is drained
start_polling(g, connected) ==
    process_telemetry_queue([g EXCEPT !.is_connected = connected])

\* TelemetryGUI.__init__: its last statement (line 61) is the first call of
\* _start_polling, which finds the provider running or not
NewGUI(connected) == start_polling(GUIFields, connected)

\* ======================= state of a run ==================================
VARIABLES
    capture,    \* the TelemetryCapture object with its SessionStorage
    disk,       \* the files written by finalize_session, in order, those
                \* that a write cut short left truncated included
    seen,       \* what the last poll read of its snapshot (None before)
    ret,        \* what process_telemetry returned for it
    event,      \* the lap-completion line it printed
    hist,       \* lap counters of the samples accepted in the open session
    polls,      \* number of polls (or storage calls) so far
    next_uuid,  \* the next fresh session id
    pc,         \* "waiting" | "polling" | "stopped"
    dir,        \* the files under data/sessions that a scan visits, in order
    call,       \* the last call made from outside: op, args, result
    gui,        \* the TelemetryGUI object, its queue and its worker threads
    error       \* the last poll cycle raised and the loop's handler printed
                \* it; of the storage called directly: the last call of
                \* finalize_session raised

vars ==
    <<capture, disk, seen, ret, event, hist, polls, next_uuid, pc, dir, call,
      gui, error>>

\* str(uuid.uuid4()): a string no other session has
uuid4(n) == <<n>>

\* no call yet
NoCall == [op |-> "none", args |-> None, result |-> None]

\* the fields of the snapshot that process_telemetry looked at: the session
\* number always (line 322), the lap counter if it got to line 339, the
\* last-lap-time if it took the branch of line 343, and the availability of
\* the metadata if it called initialize_new_session
Looked(snap, r) ==
    [SessionNum |-> snap.SessionNum,
     Lap |-> IF r.ret THEN snap.Lap ELSE None,
     LapLastLapTime |-> IF r.event.rollover THEN snap.LapLastLapTime ELSE None,
     SessionTime |-> snap.SessionTime,
     info |-> IF r.asked THEN Some(snap.info) ELSE None]

\* ---- history of the open session (not program state) --------------------
SeenLaps(h) == {Val(h[i].lap) : i \in {j \in 1..Len(h) : h[j].lap # None}}

MaxOf(S) == CHOOSE m \in S : \A x \in S : x <= m

\* the sample raises the lap counter above everything seen in the session
Rises(h, lap) ==
    lap # None /\ SeenLaps(h) # {} /\ Val(lap) > MaxOf(SeenLaps(h))

\* one entry per accepted sample: its lap counter, its time stamp, and the
\* last-lap-time it reported if it raised the lap counter
HistEntry(h, telemetry) ==
    [lap |-> telemetry.lap, time |-> telemetry.time,
     lap_time |-> IF Rises(h, telemetry.lap)
                  THEN telemetry.lap_last_lap_time ELSE None]

NextHist(h, c, r, telemetry) ==
    LET opened == r.capture.storage.session_id # c.storage.session_id
        prev == IF opened THEN <<>> ELSE h
    IN  IF r.ret THEN Append(prev, HistEntry(prev, telemetry))
        ELSE IF r.capture.storage.session_data = None THEN <<>> ELSE h

\* ======================= TelemetryCapture.run ============================
InitWith(g) ==
    /\ capture = NewCapture
    /\ disk = <<>>
    /\ seen = None
    /\ ret = FALSE
    /\ event = Quiet
    /\ hist = <<>>
    /\ polls = 0
    /\ next_uuid = 1
    /\ pc = "waiting"
    /\ dir = <<>>
    /\ call = NoCall
    /\ gui = g
    /\ error = FALSE

\* a run from the command line: the window, if one is built, finds no
\* provider
Init == InitWith(NewGUI(FALSE))

\* wait_for_iracing / connect: ir.startup() succeeded
Connect ==
    /\ pc = "waiting"
    /\ capture' = [capture EXCEPT !.is_connected = TRUE]
    /\ pc' = "polling"
    /\ UNCHANGED <<disk, seen, ret, event, hist, polls, next_uuid, dir, call,
                   gui, error>>

\* the effect of a poll whose process_telemetry call came out as r
Polled(snap, r) ==
    /\ capture' = r.capture
    /\ disk' = write(disk, r.file)
    /\ seen' = Some(Looked(snap, r))
    /\ ret' = r.ret
    /\ event' = r.event
    /\ hist' = NextHist(hist, capture, r, get_telemetry(snap))
    /\ next_uuid' = IF r.capture.storage.session_id
                         # capture.storage.session_id
                       /\ r.capture.storage.session_id # None
                    THEN next_uuid + 1 ELSE next_uuid

\* one iteration of the loop with the provider connected (lines 423-434);
\* the display of line 431 may raise after the sample is processed
Poll ==
    /\ pc = "polling"
    /\ polls < MaxPolls
    /\ \E snap \in Snapshots(polls + 1) :
          Polled(snap, process_telemetry(capture, get_telemetry(snap), snap,
                                         uuid4(next_uuid)))
    /\ polls' = polls + 1
    /\ pc' = "polling"
    /\ \E raised \in BOOLEAN : error' = raised
    /\ UNCHANGED <<dir, call, gui>>

\* the effect of the save made when the provider is gone
Lost(saved) ==
    /\ capture' = [saved.capture EXCEPT
                      !.storage = reset(@),
                      !.current_session_num = None,
                      !.current_lap = None,
                      !.best_lap_time = None,
                      !.is_connected = FALSE]
    /\ disk' = write(disk, saved.file)

\* one iteration that finds the provider gone and whose save (line 414)
\* raises: the open lap has been appended, the write leaves nothing or a
\* truncated file, the reset is not reached, the handler of lines 436-438
\* prints the error and the loop goes on.  No sample is read or processed in
\* this iteration.  At most MaxFailedSaves laps of a session are appended by
\* failed saves
LostConnectionFailed ==
    /\ pc = "polling"
    /\ finalize_writes(capture.storage, TRUE)
    /\ Len(Val(capture.storage.session_data).laps)
           < Val(capture.storage.current_lap_number) + MaxFailedSaves
    /\ capture' = save_current_session_failed(capture, TRUE)
    /\ \E left \in left_by_failed_write(
                       save_current_session(capture, TRUE).file) :
          disk' = write(disk, left)
    /\ seen' = None
    /\ ret' = FALSE
    /\ event' = Quiet
    /\ error' = TRUE
    /\ UNCHANGED <<hist, polls, next_uuid, pc, dir, call, gui>>

\* one iteration that finds the provider gone (lines 411-421)
LostConnection ==
    /\ pc = "polling"
    /\ Lost(save_current_session(capture, TRUE))
    /\ hist' = <<>>
    /\ pc' = "waiting"
    /\ UNCHANGED <<seen, ret, event, polls, next_uuid, dir, call, gui, error>>

\* the effect of the save made by the finally clause
Stopped(saved) ==
    /\ capture' = [saved.capture EXCEPT !.is_connected = FALSE]
    /\ disk' = write(disk, saved.file)

\* Ctrl+C, and the save of the finally clause (line 449) raises: the open
\* lap has been appended, the write leaves nothing or a truncated file, and
\* the exception leaves run before the disconnect of line 450
StopFailed ==
    /\ pc \in {"waiting", "polling"}
    /\ finalize_writes(capture.storage, TRUE)
    /\ capture' = save_current_session_failed(capture, TRUE)
    /\ \E left \in left_by_failed_write(
                       save_current_session(capture, TRUE).file) :
          disk' = write(disk, left)
    /\ pc' = "stopped"
    /\ UNCHANGED <<seen, ret, event, hist, polls, next_uuid, dir, call, gui,
                   error>>

\* Ctrl+C between two iterations: the finally clause (lines 447-450)
Stop ==
    /\ pc \in {"waiting", "polling"}
    /\ Stopped(save_current_session(capture, TRUE))
    /\ pc' = "stopped"
    /\ UNCHANGED <<seen, ret, event, hist, polls, next_uuid, dir, call, gui,
                   error>>

\* the effect of Ctrl+C inside an iteration, which came out as stop
Interrupt(stop) ==
    /\ capture' = stop.capture
    /\ disk' = disk \o stop.files
    /\ hist' = IF stop.kept THEN hist ELSE <<>>
    /\ next_uuid' = IF stop.capture.storage.session_id
                         = Some(uuid4(next_uuid))
                    THEN next_uuid + 1 ELSE next_uuid

\* Ctrl+C inside an iteration of the loop: KeyboardInterrupt is raised
\* between two statements of process_telemetry (line 428) or of the
\* handling of a lost connection (lines 411-421), the KeyboardInterrupt
\* handler prints, and the finally clause runs on the state left behind
Interrupted ==
    /\ pc = "polling"
    /\ \/ /\ polls < MaxPolls
          /\ \E snap \in Snapshots(polls + 1) :
                \E cut \in process_telemetry_cuts(capture,
                                                  get_telemetry(snap), snap,
                                                  uuid4(next_uuid)) :
                   \E stop \in interrupted_outcomes(cut) : Interrupt(stop)
       \/ \E cut \in lost_connection_cuts(capture) :
             \E stop \in interrupted_outcomes(cut) : Interrupt(stop)
    /\ pc' = "stopped"
    /\ UNCHANGED <<seen, ret, event, polls, dir, call, gui, error>>

\* one iteration in which an exception is raised before the capture has
\* changed: by get_telemetry, or by the save of a session change (line
\* 326), which appends nothing and leaves nothing or a truncated file; the
\* handler of lines 436-438 prints it and the loop goes on.  At most
\* MaxFailedSaves truncated files are left by the saves of a run
PollFailed ==
    /\ pc = "polling"
    /\ \/ disk' = disk
       \/ /\ Cardinality({i \in 1..Len(disk) : ~complete(disk[i])})
                 < MaxFailedSaves
          /\ \E snap \in Snapshots(polls + 1) :
                \E left \in left_by_failed_write(
                                save_previous(
                                    capture,
                                    session_changed(
                                        get_telemetry(snap).session_num,
                                        capture.current_session_num)).file) :
                   disk' = write(disk, left)
    /\ error' = TRUE
    /\ UNCHANGED <<capture, seen, ret, event, hist, polls, next_uuid, pc, dir,
                   call, gui>>

Next ==
    \/ Connect
    \/ Poll
    \/ PollFailed
    \/ LostConnection
    \/ LostConnectionFailed
    \/ Interrupted
    \/ Stop
    \/ StopFailed

Spec == Init /\ [][Next]_vars

\* ======================= SessionStorage called directly ==================
\* any sequence of calls of the storage's methods on one instance
StorageCall ==
    /\ polls < MaxCalls
    /\ polls' = polls + 1
    /\ UNCHANGED <<seen, ret, event, hist, pc, dir, gui>>

StorageInitialize ==
    /\ StorageCall
    /\ capture' = [capture EXCEPT
                      !.storage = initialize_session(@, uuid4(next_uuid))]
    /\ next_uuid' = next_uuid + 1
    /\ call' = [op |-> "initialize_session", args |-> None,
                result |-> Some(uuid4(next_uuid))]
    /\ UNCHANGED <<disk, error>>

StorageAddSample ==
    /\ StorageCall
    /\ capture' = [capture EXCEPT
                      !.storage = add_telemetry_sample(@, [time |-> polls + 1])]
    /\ call' = [op |-> "add_telemetry_sample", args |-> None, result |-> None]
    /\ UNCHANGED <<disk, next_uuid, error>>

StorageCompleteLap ==
    /\ StorageCall
    /\ \E lap_time \in 0..MaxLapTime :
          /\ capture' = [capture EXCEPT !.storage = complete_lap(@, lap_time)]
          /\ call' = [op |-> "complete_lap", args |-> Some(lap_time),
                      result |-> completed_lap(capture.storage)]
    /\ UNCHANGED <<disk, next_uuid, error>>

\* the effect of a call of finalize_session that came out as f; raised
\* says that the write raised, and left is what the write left at the path
Finalized(include_incomplete_lap, f, raised, left) ==
    /\ capture' = [capture EXCEPT !.storage = f.storage]
    /\ disk' = write(disk, left)
    /\ call' = [op |-> "finalize_session",
                args |-> Some(include_incomplete_lap),
                result |-> IF raised \/ f.file = None THEN None
                           ELSE Some(Val(f.file).path)]
    /\ error' = raised

\* finalize_session returns, or mkdir, open or json.dump raises (lines
\* 192-200) once there is a lap to write; error says that the last call of
\* finalize_session raised
StorageFinalize ==
    /\ StorageCall
    /\ \E include_incomplete_lap \in BOOLEAN :
          \/ Finalized(include_incomplete_lap,
                       finalize_session(capture.storage,
                                        include_incomplete_lap),
                       FALSE,
                       finalize_session(capture.storage,
                                        include_incomplete_lap).file)
          \/ /\ finalize_writes(capture.storage, include_incomplete_lap)
             /\ \E left \in left_by_failed_write(
                                finalize_session(capture.storage,
                                                 include_incomplete_lap).file) :
                   Finalized(include_incomplete_lap,
                             finalize_session(capture.storage,
                                              include_incomplete_lap),
                             TRUE, left)
    /\ UNCHANGED next_uuid

StorageReset ==
    /\ StorageCall
    /\ capture' = [capture EXCEPT !.storage = reset(@)]
    /\ call' = [op |-> "reset", args |-> None, result |-> None]
    /\ UNCHANGED <<disk, next_uuid, error>>

StorageNext ==
    \/ StorageInitialize
    \/ StorageAddSample
    \/ StorageCompleteLap
    \/ StorageFinalize
    \/ StorageReset

StorageSpec == Init /\ [][StorageNext]_vars

\* ---- the directory that the records written so far make up --------------
\* open(filepath, 'w') replaces the file: a path holds what was written last
LastWrite(d, path) ==
    d[CHOOSE i \in 1..Len(d) :
          /\ d[i].path = path
          /\ \A j \in (i + 1)..Len(d) : d[j].path # path]

\* the files that the writes of finalize_session leave under data/sessions:
\* the record written last at a path, or a file that is not JSON when the
\* last write at the path was cut short
StoredFiles(d) ==
    {IF complete(LastWrite(d, d[i].path))
     THEN [path |-> d[i].path, kind |-> "json",
           text |-> Some(json_dump(LastWrite(d, d[i].path).data))]
     ELSE [path |-> d[i].path, kind |-> "truncated", text |-> None] :
        i \in 1..Len(d)}

\* the orders in which rglob may visit a set of files
Orders(files) ==
    {order \in [1..Cardinality(files) -> files] :
        \A i, j \in 1..Cardinality(files) : order[i] = order[j] => i = j}

\* ======================= the stored sessions queried directly ============
\* records as finalize_session writes them, with the timestamp of their
\* metadata, and files that cannot be read as a record
ScanIds == {<<1, 1>>, <<1, 2>>, <<2, 1>>}

QueryIds == {<<1>>, <<2>>, <<1, 1>>, <<1, 2>>, <<2, 2>>}

ScanLaps ==
    {<<[lap_number |-> 0, lap_time |-> Some(1), telemetry |-> <<[time |-> 1]>>]>>,
     <<[lap_number |-> 0, lap_time |-> Some(2), telemetry |-> <<[time |-> 1]>>],
       [lap_number |-> 1, lap_time |-> None,
        telemetry |-> <<[time |-> 2], [time |-> 3]>>]>>}

ScanRecords ==
    {[metadata |-> [session_id |-> id, timestamp |-> timestamp,
                    total_laps |-> Len(laps)],
      laps |-> laps] :
        id \in ScanIds, timestamp \in 1..2, laps \in ScanLaps}

ScanFiles(path) ==
    {[path |-> path, kind |-> "json", text |-> Some(json_dump(data))] :
        data \in ScanRecords}
    \cup {[path |-> path, kind |-> kind, text |-> None] :
             kind \in {"truncated", "unreadable", "not_utf8", "not_object"}}

\* the scan order with a new file: rglob visits the files in the order of
\* the directory entries, and a new entry may come anywhere among the old
insert_file(files, i, file) ==
    SubSeq(files, 1, i) \o <<file>> \o SubSeq(files, i + 1, Len(files))

\* a file appears under data/sessions, or an existing one is written again
\* (finalize_session opens the path of its session with 'w', line 199) and
\* keeps its place in the scan order
ScanPut ==
    /\ \/ /\ Len(dir) < MaxFiles
          /\ \E file \in ScanFiles(Len(dir) + 1), i \in 0..Len(dir) :
                dir' = insert_file(dir, i, file)
       \/ \E i \in 1..Len(dir) :
             \E file \in ScanFiles(dir[i].path) :
                dir' = [dir EXCEPT ![i] = file]
    /\ call' = NoCall
    /\ UNCHANGED <<capture, disk, seen, ret, event, hist, polls, next_uuid, pc,
                   gui, error>>

ScanList ==
    /\ call' = [op |-> "list_all_sessions", args |-> None,
                result |-> list_all_sessions(dir)]
    /\ UNCHANGED <<capture, disk, seen, ret, event, hist, polls, next_uuid, pc,
                   dir, gui, error>>

ScanLoad ==
    /\ \E session_id \in QueryIds :
          call' = [op |-> "load_session", args |-> Some(session_id),
                   result |-> load_session(session_id, dir)]
    /\ UNCHANGED <<capture, disk, seen, ret, event, hist, polls, next_uuid, pc,
                   dir, gui, error>>

ScanNext == ScanPut \/ ScanList \/ ScanLoad

ScanSpec == Init /\ [][ScanNext]_vars

\* ======================= the exporter called directly ====================
Distances == 0..GridPoints

Speeds == {0, 2}

Gears == {-1, 0, 1}

Samples == [lap_dist_pct : Distances, speed : Speeds, gear : Gears]

\* the sample sequences of a lap, in any stored order
Telemetries ==
    UNION {[1..n -> Samples] : n \in 0..MaxSamples}

\* the laps of the sessions to compare: no samples, or two samples at the
\* ends of the lap
ExportTelemetries ==
    {<<>>} \cup [1..2 -> [lap_dist_pct : {0, GridPoints}, speed : {0},
                          gear : Gears]]

\* sessions of up to two laps, numbered from 0 as finalize_session
\* writes them
ExportSessions ==
    {[laps |-> [i \in 1..n |->
                   [lap_number |-> i - 1, lap_time |-> Some(1),
                    telemetry |-> tel[i]]]] :
        n \in 0..2, tel \in [1..2 -> ExportTelemetries]}

Requests == UNION {[1..n -> 1..3] : n \in 0..MaxRequest}

\* one call of the exporter, on a loaded session that it only reads
ExportUnchanged ==
    /\ call = NoCall
    /\ UNCHANGED <<capture, disk, seen, ret, event, hist, polls, next_uuid, pc,
                   dir, gui, error>>

ExportInterpolate ==
    /\ ExportUnchanged
    /\ \E telemetry \in Telemetries :
          call' = [op |-> "_interpolate_telemetry",
                   args |-> Some(telemetry),
                   result |-> interpolate_telemetry(telemetry,
                                                    target_distances)]

ExportComparison ==
    /\ ExportUnchanged
    /\ \E session_data \in ExportSessions, lap_numbers \in Requests :
          call' = [op |-> "export_comparison_csv",
                   args |-> Some([session_data |-> session_data,
                                  lap_numbers |-> lap_numbers]),
                   result |-> export_comparison_csv(session_data,
                                                    lap_numbers)]

\* the lap numbers a user may pass to the export command
LapNumbers == 0..3

ExportLap ==
    /\ ExportUnchanged
    /\ \E session_data \in ExportSessions, lap_number \in LapNumbers :
          call' = [op |-> "export_lap_to_csv",
                   args |-> Some([session_data |-> session_data,
                                  lap_number |-> lap_number]),
                   result |-> export_lap_to_csv(session_data, lap_number)]

ExportComplete ==
    /\ ExportUnchanged
    /\ \E session_data \in ExportSessions :
          call' = [op |-> "export_complete_session_to_csv",
                   args |-> Some([session_data |-> session_data]),
                   result |-> export_complete_session_to_csv(session_data)]

ShowInfo ==
    /\ ExportUnchanged
    /\ \E session_data \in ExportSessions :
          call' = [op |-> "cmd_info",
                   args |-> Some([session_data |-> session_data]),
                   result |-> Some(cmd_info(session_data))]

\* a session entry is clicked, in a window in any state of its cards: the
\* session is one of those under data/sessions, of up to two laps numbered
\* from 0, each without lap time (appended open) or with a positive one,
\* and without samples or with one
ShowLapTable ==
    /\ \E n \in 0..2, times \in [1..2 -> {None, Some(1), Some(2)}],
          tel \in [1..2 -> {<<>>, <<[lap_dist_pct |-> 0, speed |-> 0,
                                     gear |-> 1]>>}] :
          /\ call' = [op |-> "_load_session_details",
                      args |-> Some([session_data |->
                                  [laps |-> [i \in 1..n |->
                                      [lap_number |-> i - 1,
                                       lap_time |-> times[i],
                                       telemetry |-> tel[i]]]]]),
                      result |-> Some(load_session_details(
                                  [laps |-> [i \in 1..n |->
                                      [lap_number |-> i - 1,
                                       lap_time |-> times[i],
                                       telemetry |-> tel[i]]]]))]
          /\ gui' = show_best_lap(gui, best_lap_card(
                                   [laps |-> [i \in 1..n |->
                                       [lap_number |-> i - 1,
                                        lap_time |-> times[i],
                                        telemetry |-> tel[i]]]]))
    /\ UNCHANGED <<capture, disk, seen, ret, event, hist, polls, next_uuid, pc,
                   dir, error>>

ExportNext ==
    \/ ExportInterpolate
    \/ ExportComparison
    \/ ExportLap
    \/ ExportComplete
    \/ ShowInfo
    \/ ShowLapTable

ExportSpec == Init /\ [][ExportNext]_vars

\* ======================= the GUI and its capture worker ==================
\* the handlers of the Tk main loop run one at a time on the main thread;
\* the worker threads run between them
GuiUnchanged ==
    UNCHANGED <<capture, seen, ret, event, hist, pc, dir, call>>

Worker(k) == gui.threads[k]

\* the capture button is pressed
ToggleCapture ==
    /\ gui.mainloop = "idle"
    /\ Len(toggle_capture(gui).threads) <= MaxThreads
    /\ gui' = toggle_capture(gui)
    /\ UNCHANGED <<disk, polls, next_uuid, error>>
    /\ GuiUnchanged

\* TelemetryGUI._start_polling, every 2 s: _check_iracing_connection finds
\* the provider connected or not, then the queue is drained
StartPolling ==
    /\ gui.mainloop = "idle"
    /\ \E connected \in BOOLEAN : gui' = start_polling(gui, connected)
    /\ UNCHANGED <<disk, polls, next_uuid, error>>
    /\ GuiUnchanged

\* TelemetryGUI.run returns because the window was closed: the process
\* ends, and the worker, a daemon thread (line 555), is killed wherever it
\* is, with nothing saved; killed inside json.dump (storage.py 199-200) it
\* leaves the file it was writing truncated
CloseWindow ==
    /\ gui.mainloop = "idle"
    /\ gui' = [gui EXCEPT !.mainloop = "closed",
                          !.threads = [k \in 1..Len(@) |-> DeadThread]]
    /\ \/ disk' = disk
       \/ \E k \in 1..Len(gui.threads) :
             \E left \in left_by_failed_write(being_written(Worker(k))) :
                disk' = write(disk, left)
    /\ UNCHANGED <<polls, next_uuid, error>>
    /\ GuiUnchanged

\* _capture_loop line 582: wait_for_iracing returns
WorkerConnect ==
    /\ \E k \in 1..Len(gui.threads) :
          /\ Worker(k).pc = "waiting"
          /\ gui' = [gui EXCEPT !.threads[k].pc = "running",
                                !.threads[k].capture.is_connected = TRUE]
    /\ UNCHANGED <<disk, polls, next_uuid, error>>
    /\ GuiUnchanged

\* line 584: the test of the loop finds the flag set
WorkerEnters ==
    /\ gui.is_capturing
    /\ polls < MaxGuiPolls
    /\ \E k \in 1..Len(gui.threads) :
          /\ Worker(k).pc = "running"
          /\ gui' = [gui EXCEPT !.threads[k].pc = "checked"]
    /\ UNCHANGED <<disk, polls, next_uuid, error>>
    /\ GuiUnchanged

\* line 584: the test of the loop finds the flag cleared
WorkerStopsLoop ==
    /\ ~gui.is_capturing
    /\ \E k \in 1..Len(gui.threads) :
          /\ Worker(k).pc = "running"
          /\ gui' = [gui EXCEPT !.threads[k].pc = "stopping"]
    /\ UNCHANGED <<disk, polls, next_uuid, error>>
    /\ GuiUnchanged

\* lines 585-586: the provider is gone and the loop is left
WorkerLeave ==
    /\ \E k \in 1..Len(gui.threads) :
          /\ Worker(k).pc = "checked"
          /\ gui' = [gui EXCEPT !.threads[k].pc = "stopping"]
    /\ UNCHANGED <<disk, polls, next_uuid, error>>
    /\ GuiUnchanged

\* the effect of lines 588-590 whose process_telemetry call came out as r;
\* the item for the queue is built from the sample and the capture
WorkerProcessed(k, telemetry, r) ==
    /\ gui' = [gui EXCEPT
                  !.threads[k] =
                      [pc |-> "processed",
                       capture |-> r.capture,
                       hist |-> NextHist(Worker(k).hist, Worker(k).capture, r,
                                         telemetry),
                       item |-> Some(queue_item(telemetry, r.capture))]]
    /\ disk' = write(disk, r.file)
    /\ next_uuid' = IF r.capture.storage.session_id
                         # Worker(k).capture.storage.session_id
                       /\ r.capture.storage.session_id # None
                    THEN next_uuid + 1 ELSE next_uuid

\* lines 588-600: the worker, past the tests of 584 and 585 whatever the
\* flag is by now, reads a sample and processes it, or get_telemetry
\* returns None (a read of the provider raised, capture.py 163-165) and the
\* worker sleeps until the next test of the loop
WorkerProcess ==
    /\ \E k \in 1..Len(gui.threads) :
          /\ Worker(k).pc = "checked"
          /\ \/ /\ polls < MaxGuiPolls
                /\ \E snap \in Snapshots(polls + 1) :
                      WorkerProcessed(k, get_telemetry(snap),
                                      process_telemetry(Worker(k).capture,
                                                        get_telemetry(snap),
                                                        snap,
                                                        uuid4(next_uuid)))
                /\ polls' = polls + 1
             \/ /\ gui' = [gui EXCEPT !.threads[k].pc = "running"]
                /\ UNCHANGED <<disk, polls, next_uuid>>
    /\ error' = FALSE
    /\ GuiUnchanged

\* the effect of a put that came out as put
WorkerHasPut(k, put) ==
    gui' = [gui EXCEPT
               !.threads[k].pc = IF put.blocked THEN "blocked" ELSE "running",
               !.threads[k].item = IF put.blocked THEN @ ELSE None,
               !.telemetry_queue = put.queue]

\* lines 593-600: the item is put on the queue and the worker sleeps until
\* the next test of the loop
WorkerPut ==
    /\ \E k \in 1..Len(gui.threads) :
          /\ Worker(k).pc = "processed"
          /\ WorkerHasPut(k, queue_put(gui.telemetry_queue,
                                       Val(Worker(k).item)))
    /\ UNCHANGED <<disk, polls, next_uuid, error>>
    /\ GuiUnchanged

\* an exception is raised in the try block (578-604): by the startup of
\* the provider in wait_for_iracing, by the reads of lines 585-590, by the
\* save of a session change (capture.py 326), by the save of line 603 when
\* it has a lap to write, or by the disconnect of line 604.  A save that
\* raises leaves nothing or a truncated file.  The handler of lines 606-608
\* prints the exception, clears the flag and the thread ends
WorkerFailed ==
    /\ \E k \in 1..Len(gui.threads) :
          /\ \/ Worker(k).pc \in {"waiting", "checked", "saved"}
             \/ /\ Worker(k).pc = "stopping"
                /\ finalize_writes(Worker(k).capture.storage, TRUE)
          /\ \E left \in left_by_failed_write(being_written(Worker(k))) :
                disk' = write(disk, left)
          /\ gui' = [gui EXCEPT !.threads[k] = DeadThread,
                                !.is_capturing = FALSE]
    /\ error' = TRUE
    /\ UNCHANGED <<polls, next_uuid>>
    /\ GuiUnchanged

\* the effect of the save made after the loop
WorkerSaved(k, saved) ==
    /\ gui' = [gui EXCEPT !.threads[k].pc = "saved",
                          !.threads[k].capture = saved.capture]
    /\ disk' = write(disk, saved.file)

\* lines 602-603: the session is saved
WorkerSave ==
    /\ \E k \in 1..Len(gui.threads) :
          /\ Worker(k).pc = "stopping"
          /\ WorkerSaved(k, save_current_session(Worker(k).capture, TRUE))
    /\ UNCHANGED <<polls, next_uuid, error>>
    /\ GuiUnchanged

\* line 604: the provider is disconnected and _capture_loop returns
WorkerDisconnect ==
    /\ \E k \in 1..Len(gui.threads) :
          /\ Worker(k).pc = "saved"
          /\ gui' = [gui EXCEPT !.threads[k] = DeadThread]
    /\ UNCHANGED <<disk, polls, next_uuid, error>>
    /\ GuiUnchanged

\* a session entry of the list is clicked (lines 395-399): _select_session
\* loads the record of the session from data/sessions, in whatever order
\* the files are visited, rebuilds the lap table and updates the best-lap
\* card.  The entries are those of the sessions found on disk when the list
\* was last loaded; a click on a session whose record cannot be loaded
\* changes nothing (line 410)
SelectSession ==
    /\ gui.mainloop = "idle"
    /\ \E i \in 1..Len(disk), order \in Orders(StoredFiles(disk)) :
          /\ load_session(disk[i].data.metadata.session_id, order).raised
                = None
          /\ load_session(disk[i].data.metadata.session_id,
                          order).session_data # None
          /\ call' = [op |-> "_load_session_details",
                      args |-> Some([session_data |->
                                  Val(load_session(
                                          disk[i].data.metadata.session_id,
                                          order).session_data)]),
                      result |-> Some(load_session_details(
                                  Val(load_session(
                                          disk[i].data.metadata.session_id,
                                          order).session_data)))]
          /\ gui' = show_best_lap(gui, best_lap_card(
                                   Val(load_session(
                                           disk[i].data.metadata.session_id,
                                           order).session_data)))
    /\ UNCHANGED <<capture, disk, seen, ret, event, hist, polls, next_uuid, pc,
                   dir, error>>

GuiNext ==
    \/ ToggleCapture
    \/ StartPolling
    \/ SelectSession
    \/ CloseWindow
    \/ WorkerConnect
    \/ WorkerEnters
    \/ WorkerStopsLoop
    \/ WorkerLeave
    \/ WorkerProcess
    \/ WorkerPut
    \/ WorkerFailed
    \/ WorkerSave
    \/ WorkerDisconnect

\* the window is built with the provider running or not
GuiInit == \E connected \in BOOLEAN : InitWith(NewGUI(connected))

GuiSpec == GuiInit /\ [][GuiNext]_vars

\* a worker thread that can run does run: once the flag is cleared its loop
\* ends after the current iteration, and the save and the disconnect after
\* the loop are made. Nothing makes the provider start: wait_for_iracing
\* (capture.py 58-65) returns only when ir.startup() succeeds.
FairGuiSpec ==
    /\ GuiSpec
    /\ WF_vars(WorkerStopsLoop)
    /\ WF_vars(WorkerProcess)
    /\ WF_vars(WorkerPut)
    /\ WF_vars(WorkerSave)
    /\ WF_vars(WorkerDisconnect)

\* ======================= shorthands for the properties ===================
Store == capture.storage

Active == Store.session_data # None

\* the session's lap sequence, by value
StoredLaps ==
    [i \in 1..Len(Val(Store.session_data).laps) |->
        Store.heap[Val(Store.session_data).laps[i]]]

OpenLap == Store.heap[Val(Store.current_lap)]

\* the step adds no lap to the session's lap sequence and takes none from
\* it, and changes no lap of it, the open lap apart, which is in the
\* sequence once a save that appended it has failed
LapsKept ==
    /\ Val(Store'.session_data).laps = Val(Store.session_data).laps
    /\ \A i \in 1..Len(Val(Store.session_data).laps) :
           Val(Store.session_data).laps[i] # Val(Store.current_lap) =>
               StoredLaps'[i] = StoredLaps[i]

\* the laps completed in the session: complete_lap gives the new open lap
\* the next number, starting from 0
Completed == Val(Store.current_lap_number)

Tel == get_telemetry(Val(seen))

\* the step is one poll
PollStep == polls' = polls + 1

\* the poll was accepted into the session that was already open
SameSession ==
    /\ Active
    /\ ret'
    /\ Store'.session_id = Store.session_id

Valid(lap_time) == lap_time # None /\ Val(lap_time) > 0

Times(h) == [i \in 1..Len(h) |-> [time |-> h[i].time]]

Last(h) == h[Len(h)]

\* between two polls of a running capture with a session open
Capturing == pc = "polling" /\ Active /\ hist # <<>>

\* ======================= C1 ==============================================
\* the open session has seen k >= 1 samples with one lap counter and then,
\* last, one sample with a greater lap counter and a positive last-lap-time
C1Case ==
    /\ Capturing
    /\ ret
    /\ Len(hist) >= 2
    /\ hist[1].lap # None
    /\ \A i \in 1..(Len(hist) - 1) : hist[i].lap = hist[1].lap
    /\ Last(hist).lap # None
    /\ Val(Last(hist).lap) > Val(hist[1].lap)
    /\ Valid(Last(hist).lap_time)

\* what C1 says of lap 0 and of the best lap
C1Closed ==
    /\ Len(StoredLaps) >= 1
    /\ StoredLaps[1].lap_number = 0
    /\ StoredLaps[1].lap_time = Last(hist).lap_time
    /\ StoredLaps[1].telemetry = SubSeq(Times(hist), 1, Len(hist) - 1)
    /\ capture.best_lap_time = Last(hist).lap_time
    /\ Store.current_lap_number = Some(1)

\* C1 as stated: after k samples of one lap counter and a rollover sample
\* with positive last-lap-time t, lap 0 is stored with lapTime t and the k
\* samples, the best lap is t, and the open lap is lap 1 with 0 samples.
C1_Original == C1Case => (C1Closed /\ Len(OpenLap.telemetry) = 0)

\* C1 (amended): as C1, but the open lap 1 holds exactly the rollover
\* sample, which process_telemetry appends after the lap is closed.
C1_Theorem ==
    C1Case => (C1Closed /\ OpenLap.telemetry = <<[time |-> Last(hist).time]>>)

C1_Witness == C1Case /\ Len(hist) >= 3 /\ Len(StoredLaps[1].telemetry) >= 2

\* ======================= C2 ==============================================
\* a poll of the open session whose lap counter is above the observed one
\* and whose last-lap-time is missing or not positive
C2Case ==
    /\ PollStep
    /\ SameSession
    /\ capture.current_lap # None
    /\ Tel'.lap # None
    /\ Val(Tel'.lap) > Val(capture.current_lap)
    /\ ~Valid(Tel'.lap_last_lap_time)

\* C2: on a rollover without a positive last-lap-time the open lap is closed
\* with no duration and a new open lap, numbered one higher, takes the
\* samples from then on; the best lap is unchanged.
C2_Claim ==
    [][C2Case =>
          /\ Len(StoredLaps') = Len(StoredLaps) + 1
          /\ StoredLaps'[Len(StoredLaps')].lap_time = None
          /\ StoredLaps'[Len(StoredLaps')].telemetry = OpenLap.telemetry
          /\ Store'.current_lap_number =
                 Some(Val(Store.current_lap_number) + 1)
          /\ OpenLap'.telemetry = <<make_sample(Tel')>>
          /\ capture'.best_lap_time = capture.best_lap_time]_vars

\* ======================= C3 ==============================================
\* a poll with a session open whose session identifier differs from the
\* recorded one
C3Case ==
    /\ PollStep
    /\ Active
    /\ Tel'.session_num # None
    /\ Tel'.session_num # capture.current_session_num

\* C3: on a session change the active session is finalized without its open
\* lap (the record written holds exactly the completed laps, each with a
\* lapTime), the store is reset, and with metadata available a new session
\* is opened at lap 0 whose best lap is cleared and whose observed lap
\* counter is the one of this sample, the only sample of the new session.
C3_Claim ==
    [][C3Case =>
          /\ \A i \in 1..Len(StoredLaps) : StoredLaps[i].lap_time # None
          /\ disk' = IF Len(StoredLaps) > 0
                     THEN Append(disk, [path |-> Val(Store.session_id),
                                        data |-> [metadata |-> Val(Store.metadata),
                                                  laps |-> StoredLaps]])
                     ELSE disk
          /\ Val(seen').info = Some(TRUE) =>
                /\ Active'
                /\ Store'.session_id # Store.session_id
                /\ Store'.current_lap_number = Some(0)
                /\ StoredLaps' = <<>>
                /\ OpenLap'.telemetry = <<make_sample(Tel')>>
                /\ capture'.best_lap_time = None
                /\ capture'.current_lap = Tel'.lap]_vars

\* ======================= C4 ==============================================
\* a poll that has to open a session (none is open, or the session
\* identifier changed) while the session metadata is unavailable
C4Case ==
    /\ PollStep
    /\ Val(seen').info = Some(FALSE)
    /\ \/ ~Active
       \/ /\ Tel'.session_num # None
          /\ Tel'.session_num # capture.current_session_num

\* C4: with metadata unavailable on such a poll, process_telemetry fails,
\* opens no session, appends the sample to no lap and leaves the store
\* without an active session.
C4_Claim ==
    [][C4Case =>
          /\ ~ret'
          /\ Store'.session_id = None
          /\ ~Active']_vars

\* ======================= C5 ==============================================
\* C5: in every record written, the i-th lap has lap_number i (from 0, no
\* gap, no repeat), only the last lap may lack a lapTime, and a lap without
\* a lapTime has at least one sample.
C5_Claim ==
    \A f \in 1..Len(disk) :
        LET laps == disk[f].data.laps
        IN  \A i \in 1..Len(laps) :
                /\ laps[i].lap_number = i - 1
                /\ laps[i].lap_time = None =>
                      /\ i = Len(laps)
                      /\ Len(laps[i].telemetry) >= 1

\* ======================= C6 ==============================================
\* C6: with a session active, metadata.total_laps is the length of the
\* session's lap sequence.
C6_Theorem ==
    Active => Val(Store.metadata).total_laps = Len(Val(Store.session_data).laps)

\* a session with a completed lap and the open lap appended by finalize
C6_Witness ==
    /\ Active
    /\ Len(StoredLaps) >= 2
    /\ StoredLaps[1].lap_time # None
    /\ StoredLaps[Len(StoredLaps)].lap_time = None
    /\ Len(disk) >= 1

\* ======================= C7 ==============================================
\* the lap counter is present in every sample and each sample's counter is
\* above the one before
StrictlyIncreasing(h) ==
    /\ \A i \in 1..Len(h) : h[i].lap # None
    /\ \A i \in 1..(Len(h) - 1) : Val(h[i].lap) < Val(h[i + 1].lap)

Span(h) == Val(Last(h).lap) - Val(h[1].lap)

\* C7: when the lap counter of a session's samples is strictly increasing,
\* the number of laps completed is the final counter minus the initial one.
C7_Claim ==
    (Capturing /\ StrictlyIncreasing(hist)) => Completed = Span(hist)

\* ======================= C8 ==============================================
\* the observed lap counter while the i-th sample of the session was stored
Cur(h, i) ==
    LET S == SeenLaps(SubSeq(h, 1, i))
    IN  IF S = {} THEN None ELSE Some(MaxOf(S))

IndexOf(h, t) == CHOOSE i \in 1..Len(h) : h[i].time = t

CountCur(h, v) == Cardinality({i \in 1..Len(h) : Cur(h, i) = v})

\* each stored lap holds as many samples as were seen while the lap counter
\* of its first sample was the current one
SampleCounts ==
    \A j \in 1..Len(StoredLaps) :
        LET tel == StoredLaps[j].telemetry
        IN  /\ Len(tel) > 0
            /\ Len(tel) = CountCur(hist, Cur(hist, IndexOf(hist, tel[1].time)))

\* C8: each completed lap's sample count is the number of samples observed
\* while that lap's lap counter value was the current one.
C8_Claim == Capturing => SampleCounts

\* ======================= C9 ==============================================
\* a poll of the open session whose lap counter is not above the highest
\* one seen in the session
C9Case ==
    /\ PollStep
    /\ SameSession
    /\ Tel'.lap # None
    /\ SeenLaps(hist) # {}
    /\ Val(Tel'.lap) <= MaxOf(SeenLaps(hist))

\* C9: a sample whose lap counter is equal to or lower than the highest one
\* seen in the session completes no lap: the stored lap sequence, the open
\* lap's number, the observed lap counter and the best lap are unchanged,
\* and the only change is that the sample is appended to the open lap.
C9_Claim ==
    [][C9Case =>
          /\ StoredLaps' = StoredLaps
          /\ Store'.current_lap_number = Store.current_lap_number
          /\ capture'.current_lap = capture.current_lap
          /\ capture'.best_lap_time = capture.best_lap_time
          /\ ~event'.completed
          /\ OpenLap'.telemetry =
                 Append(OpenLap.telemetry, make_sample(Tel'))]_vars

\* ======================= C10 =============================================
\* the lap times of the stored laps that were completed (a stored lap
\* without a lap time is an open lap that a save has appended)
StoredLapTimes ==
    {Val(StoredLaps[i].lap_time) :
        i \in {j \in 1..Len(StoredLaps) : StoredLaps[j].lap_time # None}}

MinOf(S) == CHOOSE m \in S : \A x \in S : m <= x

\* the last poll was accepted into the open session
JustAccepted == Capturing /\ ret /\ Last(hist).time = Tel.time

\* C10: between polls the best lap is the minimum of the session's completed
\* lap times (absent when there is none); a completion raises the new-best
\* signal exactly when its time is below every earlier lap time of the
\* session, so an equal time keeps the previous best without the signal.
C10_Theorem ==
    /\ (pc = "polling" /\ Active) =>
          capture.best_lap_time =
              IF StoredLapTimes = {} THEN None
              ELSE Some(MinOf(StoredLapTimes))
    /\ JustAccepted =>
          /\ event.completed <=> Valid(Last(hist).lap_time)
          /\ event.is_best <=>
                /\ Valid(Last(hist).lap_time)
                /\ \A i \in 1..(Len(hist) - 1) :
                      Valid(hist[i].lap_time) =>
                          Val(Last(hist).lap_time) < Val(hist[i].lap_time)

\* a lap was completed in the time of the best lap so far: no signal
C10_Witness ==
    /\ JustAccepted
    /\ event.completed
    /\ ~event.is_best
    /\ Len(StoredLaps) = 2
    /\ StoredLaps[1].lap_time = StoredLaps[2].lap_time
    /\ capture.best_lap_time = StoredLaps[1].lap_time

\* ======================= C11 =============================================
\* the step is a call of finalize_session
FinalizeStep == call'.op = "finalize_session" /\ polls' = polls + 1

\* the flag the call was made with
Include == Val(call.args)

\* the file that a write cut short leaves at the path of the session
Truncated ==
    [path |-> Val(Store'.session_id),
     data |-> [metadata |-> Val(Store'.metadata), laps |-> StoredLaps'],
     truncated |-> TRUE]

\* C11 as stated: finalize_session writes a record and returns its location
\* if and only if a session is active and the lap sequence after the call
\* is not empty; the record written is the session as it stands after the
\* call.  With no active session, or with no lap stored and the open lap
\* empty or not included, it returns None and writes nothing.
C11_Original ==
    [][FinalizeStep =>
          /\ call'.result # None <=> (Active /\ Len(StoredLaps') > 0)
          /\ call'.result # None =>
                disk' = Append(disk, [path |-> Val(call'.result),
                                      data |-> [metadata |-> Val(Store'.metadata),
                                                laps |-> StoredLaps']])
          /\ call'.result = None => disk' = disk
          /\ (\/ ~Active
              \/ /\ Len(StoredLaps) = 0
                 /\ Len(OpenLap.telemetry) = 0 \/ ~Include')
             => (call'.result = None /\ disk' = disk)]_vars

\* C11 (amended): finalize_session writes a record and returns its location
\* if and only if a session is active, the lap sequence after the call is
\* not empty and the write does not raise; the record written is the session
\* as it stands after the call.  The write is attempted, and may raise, only
\* when a session is active and the lap sequence after the call is not
\* empty; when it raises nothing is returned and no record is written: the
\* path holds what it held, or a truncated file.  With no active session, or
\* with no lap stored and the open lap empty or not included, the call
\* returns None, does not raise and writes nothing.
C11_Theorem ==
    [][FinalizeStep =>
          /\ call'.result # None <=>
                (Active /\ Len(StoredLaps') > 0 /\ ~error')
          /\ call'.result # None =>
                disk' = Append(disk, [path |-> Val(call'.result),
                                      data |-> [metadata |-> Val(Store'.metadata),
                                                laps |-> StoredLaps']])
          /\ (call'.result = None /\ ~error') => disk' = disk
          /\ error' =>
                /\ Active
                /\ Len(StoredLaps') > 0
                /\ disk' = disk \/ disk' = Append(disk, Truncated)
          /\ (\/ ~Active
              \/ /\ Len(StoredLaps) = 0
                 /\ Len(OpenLap.telemetry) = 0 \/ ~Include')
             => (call'.result = None /\ ~error' /\ disk' = disk)]_vars

\* finalize_session(True) was called on a session with no lap stored and an
\* empty open lap, and nothing was written, after a call on an earlier
\* session had raised inside json.dump and left a truncated file
C11_Witness ==
    /\ call.op = "finalize_session"
    /\ Include
    /\ call.result = None
    /\ ~error
    /\ Active
    /\ Len(StoredLaps) = 0
    /\ Len(OpenLap.telemetry) = 0
    /\ Len(disk) = 1
    /\ ~complete(disk[1])

\* ======================= C12 =============================================
\* C12: finalize_session(True) with an open lap of at least one sample
\* appends that lap, with no lapTime and all its samples, as the last lap of
\* the session; with the flag False, or with an empty open lap, the lap
\* sequence is left as it was.
C12_Theorem ==
    [][(FinalizeStep /\ Active) =>
          IF Include' /\ Len(OpenLap.telemetry) >= 1
          THEN StoredLaps' =
                   Append(StoredLaps,
                          [lap_number |-> Val(Store.current_lap_number),
                           lap_time |-> None,
                           telemetry |-> OpenLap.telemetry])
          ELSE StoredLaps' = StoredLaps]_vars

\* finalize_session(True) has appended the open lap, with its samples and
\* no lapTime, after a completed lap
C12_Witness ==
    /\ call.op = "finalize_session"
    /\ Include
    /\ Active
    /\ Len(StoredLaps) = 2
    /\ StoredLaps[1].lap_time # None
    /\ StoredLaps[2] = OpenLap
    /\ Len(OpenLap.telemetry) >= 1

\* ======================= C13 =============================================
\* the same number of laps, the same lap time or absence of one for each
\* lap, the same number of samples in each lap
SameShape(a, b) ==
    /\ Len(a) = Len(b)
    /\ \A i \in 1..Len(a) :
          /\ a[i].lap_time = b[i].lap_time
          /\ Len(a[i].telemetry) = Len(b[i].telemetry)

\* load_session(session_id) finds, in whatever order the files are
\* visited, a record with laps of this shape
Loads(session_id, files, laps) ==
    \A order \in Orders(files) :
        /\ load_session(session_id, order).raised = None
        /\ load_session(session_id, order).session_data # None
        /\ SameShape(Val(load_session(session_id, order).session_data).laps,
                     laps)

\* C13: after finalize_session has persisted a session, load_session called
\* with the session's identifier returns a record with the same number of
\* laps, the same lap times (or absence) and the same sample counts as the
\* session has, whatever else is under data/sessions, truncated files
\* included; the sessions whose record was on disk before the call stay
\* loadable in the same way.
C13_Theorem ==
    [][(FinalizeStep /\ call'.result # None) =>
          /\ Loads(Val(Store'.session_id), StoredFiles(disk'), StoredLaps')
          /\ \A i \in 1..Len(disk) :
                complete(LastWrite(disk, disk[i].path)) =>
                    Loads(disk[i].data.metadata.session_id, StoredFiles(disk'),
                          LastWrite(disk', disk[i].path).data.laps)]_vars

\* a second session has been persisted, with a completed lap and its open
\* lap, next to the record of an earlier session
C13_Witness ==
    /\ call.op = "finalize_session"
    /\ call.result # None
    /\ Cardinality(StoredFiles(disk)) = 2
    /\ \A file \in StoredFiles(disk) : file.kind = "json"
    /\ Len(StoredLaps) >= 1
    /\ StoredLaps[Len(StoredLaps)].lap_time = None

\* ======================= C14 =============================================
Readable(files) == {i \in 1..Len(files) : files[i].kind = "json"}

\* C14: list_all_sessions over any mix of valid and corrupt or unreadable
\* records does not fail; it returns one summary for each valid record and
\* none for the others.
C14_Claim ==
    call.op = "list_all_sessions" =>
        /\ call.result.raised = None
        /\ Len(call.result.sessions) = Cardinality(Readable(dir))
        /\ {call.result.sessions[i].filepath :
                i \in 1..Len(call.result.sessions)}
               = {dir[i].path : i \in Readable(dir)}

\* ======================= C15 =============================================
StartsWith(stored_id, session_id) ==
    /\ Len(session_id) <= Len(stored_id)
    /\ \A i \in 1..Len(session_id) : stored_id[i] = session_id[i]

\* the readable records whose identifier is session_id or starts with it
Matching(files, session_id) ==
    {i \in Readable(files) :
        StartsWith(json_load(Val(files[i].text)).metadata.session_id,
                   session_id)}

\* C15: load_session(id) returns a stored record whose identifier is id or
\* starts with id whenever a readable record matches, and (None, None) when
\* none does; a corrupt record in the scan does not get in the way.
C15_Claim ==
    call.op = "load_session" =>
        /\ call.result.raised = None
        /\ IF Matching(dir, Val(call.args)) = {}
           THEN call.result.session_data = None /\ call.result.filepath = None
           ELSE /\ call.result.session_data # None
                /\ \E i \in Matching(dir, Val(call.args)) :
                      /\ call.result.filepath = Some(dir[i].path)
                      /\ call.result.session_data
                             = Some(json_load(Val(dir[i].text)))

\* ======================= C16 - C20: shorthands ===========================
Exported == call.op = "export_comparison_csv"

Requested == Val(call.args).lap_numbers

SessionLaps == Val(call.args).session_data.laps

\* the laps of the session that the user sees as lap n
LapsNumbered(n) ==
    {i \in 1..Len(SessionLaps) : SessionLaps[i].lap_number = n - 1}

\* lap n is absent from the session, or present with zero samples
Unusable(n) ==
    \/ LapsNumbered(n) = {}
    \/ \E i \in LapsNumbered(n) : SessionLaps[i].telemetry = <<>>

\* ======================= C16 =============================================
\* C16: export_comparison_csv returns None and writes no file when any
\* requested lap is absent from the session or has zero samples; a file
\* that is written has, in every row, one group of columns for each
\* requested lap, in the order requested.
C16_Theorem ==
    Exported =>
        /\ (\E k \in 1..Len(Requested) : Unusable(Requested[k]))
              => call.result = None
        /\ call.result # None =>
              \A i \in 1..Len(Val(call.result).rows) :
                  [k \in 1..Len(Val(call.result).rows[i].laps) |->
                      Val(call.result).rows[i].laps[k].lap_number]
                  = Requested

\* three laps were requested, the first two with samples and the third
\* absent: nothing was written
C16_Witness ==
    /\ Exported
    /\ Len(Requested) = 3
    /\ ~Unusable(Requested[1])
    /\ ~Unusable(Requested[2])
    /\ LapsNumbered(Requested[3]) = {}
    /\ call.result = None

\* ======================= C17 =============================================
\* C17: export_comparison_csv requested with fewer than 2 laps that have
\* samples (an empty request included) returns None and writes no file.
C17_Theorem ==
    Exported =>
        (Cardinality({k \in 1..Len(Requested) : ~Unusable(Requested[k])}) < 2
            => call.result = None)

\* one lap with samples was requested alone
C17_Witness ==
    /\ Exported
    /\ Len(Requested) = 1
    /\ ~Unusable(Requested[1])
    /\ call.result = None

\* ======================= C18 =============================================
Interpolated == call.op = "_interpolate_telemetry" /\ call.result # None

Lap == Val(call.args)

\* no two samples of the lap are at the same distance
DistinctDistances ==
    \A i, j \in 1..Len(Lap) :
        Lap[i].lap_dist_pct = Lap[j].lap_dist_pct => i = j

SameValue(v, w) == v.num * w.den = w.num * v.den

\* the sample of the lap at the smallest (largest) distance at or above
\* (at or below) x
SampleAbove(x) ==
    CHOOSE i \in 1..Len(Lap) :
        /\ Lap[i].lap_dist_pct >= x
        /\ \A j \in 1..Len(Lap) :
              Lap[j].lap_dist_pct >= x
                  => Lap[i].lap_dist_pct <= Lap[j].lap_dist_pct

SampleBelow(x) ==
    CHOOSE i \in 1..Len(Lap) :
        /\ Lap[i].lap_dist_pct <= x
        /\ \A j \in 1..Len(Lap) :
              Lap[j].lap_dist_pct <= x
                  => Lap[j].lap_dist_pct <= Lap[i].lap_dist_pct

\* linear interpolation at x over the (distance, value) pairs of the lap
\* taken in ascending order of distance, held at the ends
Linear(x, y) ==
    IF \A i \in 1..Len(Lap) : Lap[i].lap_dist_pct > x
    THEN Whole(y[SampleAbove(x)])
    ELSE IF \A i \in 1..Len(Lap) : Lap[i].lap_dist_pct <= x
    THEN Whole(y[SampleBelow(x)])
    ELSE [num |-> y[SampleBelow(x)]
                      * (Lap[SampleAbove(x + 1)].lap_dist_pct
                             - Lap[SampleBelow(x)].lap_dist_pct)
                  + (y[SampleAbove(x + 1)] - y[SampleBelow(x)])
                      * (x - Lap[SampleBelow(x)].lap_dist_pct),
          den |-> Lap[SampleAbove(x + 1)].lap_dist_pct
                      - Lap[SampleBelow(x)].lap_dist_pct]

\* C18: whatever the stored order of a lap's samples (taken here at
\* distinct distances), the values _interpolate_telemetry produces at every
\* grid point are the linear interpolation over the samples in ascending
\* order of distance.
C18_Claim ==
    (Interpolated /\ DistinctDistances) =>
        \A i \in 1..GridPoints :
            /\ SameValue(Val(call.result)[i].speed,
                         Linear(target_distances[i],
                                [k \in 1..Len(Lap) |-> Lap[k].speed]))
            /\ SameValue(Val(call.result)[i].gear,
                         Linear(target_distances[i],
                                [k \in 1..Len(Lap) |-> Lap[k].gear]))

\* ======================= C19 =============================================
\* C19: in every channel, a grid point below the lap's smallest sample
\* distance takes the value of a sample at that smallest distance, and a
\* grid point above the largest sample distance takes the value of a sample
\* at that largest distance.
C19_Claim ==
    Interpolated =>
        \A i \in 1..GridPoints :
            /\ (\A k \in 1..Len(Lap) :
                    target_distances[i] < Lap[k].lap_dist_pct)
                  => \E k \in 1..Len(Lap) :
                        /\ \A j \in 1..Len(Lap) :
                              Lap[k].lap_dist_pct <= Lap[j].lap_dist_pct
                        /\ Val(call.result)[i].speed = Whole(Lap[k].speed)
                        /\ Val(call.result)[i].gear = Whole(Lap[k].gear)
            /\ (\A k \in 1..Len(Lap) :
                    target_distances[i] > Lap[k].lap_dist_pct)
                  => \E k \in 1..Len(Lap) :
                        /\ \A j \in 1..Len(Lap) :
                              Lap[j].lap_dist_pct <= Lap[k].lap_dist_pct
                        /\ Val(call.result)[i].speed = Whole(Lap[k].speed)
                        /\ Val(call.result)[i].gear = Whole(Lap[k].gear)

\* ======================= C20 =============================================
\* the integer g is a nearest integer of the fraction v
Nearest(g, v) ==
    /\ 2 * (g * v.den - v.num) <= v.den
    /\ 2 * (v.num - g * v.den) <= v.den

\* the interpolated gear of the k-th requested lap at grid point i
InterpolatedGear(k, i) ==
    Val(interpolate_telemetry(
            SessionLaps[CHOOSE j \in 1..Len(SessionLaps) :
                            j \in LapsNumbered(Requested[k])].telemetry,
            target_distances))[i].gear

\* C20: in every row of the comparison output, each lap's gear is the
\* interpolated gear rounded to the nearest integer, for positive, zero and
\* negative interpolated values.
C20_Claim ==
    (Exported /\ call.result # None) =>
        \A i \in 1..Len(Val(call.result).rows) :
            \A k \in 1..Len(Val(call.result).rows[i].laps) :
                Nearest(Val(call.result).rows[i].laps[k].gear,
                        InterpolatedGear(k, i))

\* ======================= C21 =============================================
\* the lap of the session that a request for lap n selects
Selected(n) == Val(find_lap(SessionLaps, n - 1))

\* what interpolating the lap requested as n alone gives at grid point i
Alone(n, i) ==
    Val(interpolate_telemetry(Selected(n).telemetry, target_distances))[i]

\* C21: the resampled channel values of a lap in a comparison depend only
\* on that lap's own samples: whatever other laps are compared with it (a
\* copy of itself included), its columns hold at every grid point the
\* values that interpolating that lap alone gives.
C21_Theorem ==
    (Exported /\ call.result # None) =>
        \A i \in 1..Len(Val(call.result).rows) :
            \A k \in 1..Len(Requested) :
                /\ Val(call.result).rows[i].laps[k].speed
                      = Alone(Requested[k], i).speed
                /\ Val(call.result).rows[i].laps[k].gear
                      = int(Alone(Requested[k], i).gear)

\* a lap was compared with a copy of itself and with another lap whose
\* speed differs from its own at some grid point
C21_Witness ==
    /\ Exported
    /\ call.result # None
    /\ Len(Requested) = 3
    /\ Requested[1] = Requested[2]
    /\ Requested[3] # Requested[1]
    /\ \E i \in 1..Len(Val(call.result).rows) :
          /\ Val(call.result).rows[i].laps[1].speed
                = Val(call.result).rows[i].laps[2].speed
          /\ Val(call.result).rows[i].laps[3].speed
                # Val(call.result).rows[i].laps[1].speed

\* ======================= C22 =============================================
\* all samples of a record, lap after lap
RECURSIVE AllSamples(_)
AllSamples(laps) ==
    IF laps = <<>> THEN <<>>
    ELSE laps[1].telemetry \o AllSamples(Tail(laps))

\* the step writes one record: it holds exactly the samples of h in the
\* order they were accepted, and its last lap is the open lap of storage s
\* if that lap has samples
Persists(h, s) ==
    /\ Len(disk') = Len(disk) + 1
    /\ Last(disk').path = Val(s.session_id)
    /\ AllSamples(Last(disk').data.laps) = Times(h)
    /\ s.heap[Val(s.current_lap)].telemetry # <<>> =>
          /\ Last(Last(disk').data.laps).telemetry
                = s.heap[Val(s.current_lap)].telemetry
          /\ Last(Last(disk').data.laps).lap_time = None

\* the finally clause of TelemetryCapture.run is executed
RunStops == pc # "stopped" /\ pc' = "stopped"

\* worker k, out of its loop, makes the save of line 603
WorkerStops(k) ==
    /\ k \in 1..Len(gui.threads)
    /\ Worker(k).pc = "stopping"
    /\ gui'.threads[k].pc = "saved"

\* worker k, alive before the step, has ended after it
WorkerEnds(k) ==
    /\ k \in 1..Len(gui.threads)
    /\ is_alive(Worker(k))
    /\ ~is_alive(gui'.threads[k])

\* worker k holds a session with samples accepted since it was opened
WorkerHolds(k) ==
    /\ Worker(k).capture.storage.session_data # None
    /\ Worker(k).hist # <<>>

\* C22: when the capture loop is stopped (Ctrl+C in run, or is_capturing
\* cleared for the worker of the GUI), the session that is open is written
\* with its open lap included and every sample accepted since it was
\* opened, before the provider is disconnected: the stop of run writes that
\* record and disconnects, the save of a worker writes it while the worker
\* is still connected, and a worker that holds such a session when the flag
\* is cleared ends only after that save.
C22_Claim ==
    [][/\ (RunStops /\ Active /\ hist # <<>>) =>
              (Persists(hist, Store) /\ ~capture'.is_connected)
       /\ \A k \in 1..Len(gui.threads) :
              /\ (WorkerStops(k) /\ WorkerHolds(k)) =>
                     (/\ Persists(Worker(k).hist, Worker(k).capture.storage)
                      /\ gui'.threads[k].capture.is_connected)
              /\ (~gui.is_capturing /\ WorkerEnds(k) /\ WorkerHolds(k)) =>
                     Worker(k).pc = "saved"]_vars

\* ======================= C23 =============================================
\* the step is a poll cycle that raised an exception
CycleRaised == error' /\ (~error \/ polls' = polls + 1)

\* C23: an error raised while processing one poll cycle never terminates
\* the capture loop: after it the loop of run is still polling and the
\* worker of the GUI is still running, each with the session it had
\* accumulated, so that session is finalized when the loop is stopped.
C23_Claim ==
    [][CycleRaised =>
          /\ pc' = pc
          /\ polls' = polls => capture' = capture
          /\ \A k \in 1..Len(gui.threads) :
                Worker(k).pc = "checked" =>
                    /\ gui'.threads[k].pc \in {"checked", "running"}
                    /\ gui'.threads[k].hist = Worker(k).hist]_vars

\* ======================= C24 =============================================
\* the worker threads that are alive
Alive == {k \in 1..Len(gui.threads) : is_alive(gui.threads[k])}

\* C24: whatever the interleaving of start and stop requests with the
\* worker's execution, at most one capture worker thread is alive, so no
\* two workers poll or finalize a session at the same time.
C24_Theorem == Cardinality(Alive) <= 1

\* a second worker was started after the first had ended, and a stop was
\* requested while it is still alive and the provider is connected: the
\* next press of the button is a start request
C24_Witness ==
    /\ Len(gui.threads) = 2
    /\ Alive = {2}
    /\ gui.threads[2].pc \in {"running", "stopping"}
    /\ ~gui.is_capturing
    /\ gui.is_connected

\* ======================= C25 =============================================
\* the step changes what only the handlers of the main thread write: the
\* connection flag, the labels, the thread reference, or takes items off
\* the queue
UIStep ==
    \/ gui'.is_connected # gui.is_connected
    \/ gui'.current_lap_label # gui.current_lap_label
    \/ gui'.best_lap_label # gui.best_lap_label
    \/ gui'.capture_thread # gui.capture_thread
    \/ Len(gui'.telemetry_queue) < Len(gui.telemetry_queue)

\* C25: the hand-off from the capture worker to the UI does not block and
\* goes one way: the worker's put never waits, whatever is left undrained
\* on the queue; the drain never waits on an empty queue; and no handler of
\* the UI changes the capture object, the session or the records of a
\* worker.
C25_Theorem ==
    [][/\ \A k \in 1..Len(gui'.threads) : gui'.threads[k].pc # "blocked"
       /\ gui'.mainloop # "blocked"
       /\ UIStep =>
             /\ \A k \in 1..Len(gui.threads) : gui'.threads[k] = Worker(k)
             /\ disk' = disk]_vars

\* the worker has put two items that the UI has not drained and goes on
\* running, and the UI is not waiting
C25_Witness ==
    /\ Len(gui.telemetry_queue) = 2
    /\ gui.mainloop = "idle"
    /\ \E k \in 1..Len(gui.threads) :
          /\ gui.threads[k].pc = "running"
          /\ Len(gui.threads[k].hist) = 2

\* ======================= C26 =============================================
\* the sample of the poll just made
Sample == [time |-> Val(seen).SessionTime]

\* the snapshot of the poll just made had no session identifier, or it was
\* accepted and had no lap counter
NoSessionNum == Val(seen).SessionNum = None

NoLap == ret /\ Val(seen).Lap = None

\* C26: a poll whose snapshot lacks the session identifier or the
\* lap counter changes no segmentation state: no session is opened or
\* closed, no lap is completed and no sample is appended.
C26_Claim ==
    [][(PollStep /\ (NoSessionNum' \/ NoLap')) =>
          /\ capture'.storage = capture.storage
          /\ capture'.current_lap = capture.current_lap
          /\ disk' = disk]_vars

\* ======================= C27 =============================================
\* the step is a call of add_telemetry_sample, complete_lap or
\* finalize_session
LapCall ==
    /\ polls' = polls + 1
    /\ call'.op \in {"add_telemetry_sample", "complete_lap",
                     "finalize_session"}

\* C27: a lap that is in the session's lap sequence with a lapTime, where
\* complete_lap has put it, keeps its place, its number, its time and its
\* samples through every later call of add_telemetry_sample, complete_lap
\* and finalize_session.
C27_Theorem ==
    [][(LapCall /\ Active) =>
          /\ Len(StoredLaps') >= Len(StoredLaps)
          /\ \A i \in 1..Len(StoredLaps) :
                StoredLaps[i].lap_time # None =>
                    StoredLaps'[i] = StoredLaps[i]]_vars

\* a sample was added after a lap with samples was completed and the
\* session was written: the completed lap is as it was and the sample is in
\* the open lap
C27_Witness ==
    /\ call.op = "add_telemetry_sample"
    /\ Active
    /\ Len(disk) >= 1
    /\ Len(StoredLaps) >= 1
    /\ StoredLaps[1].lap_time # None
    /\ Len(StoredLaps[1].telemetry) = 1
    /\ disk[1].data.laps[1] = StoredLaps[1]
    /\ Len(OpenLap.telemetry) >= 1

\* ======================= C28 =============================================
\* a lap shown as number n is lap i of the session: n is its internal
\* number plus one, and the export command given n selects lap i
ShownAs(n, i) ==
    /\ n = SessionLaps[i].lap_number + 1
    /\ find_lap(SessionLaps, n - 1) = Some(SessionLaps[i])
    /\ SessionLaps[i].telemetry # <<>> =>
          /\ export_lap_to_csv(Val(call.args).session_data, n) # None
          /\ Val(export_lap_to_csv(Val(call.args).session_data, n)).lap_data
                = SessionLaps[i]

\* the lap of the session with the internal number n
Numbered(n) ==
    CHOOSE i \in 1..Len(SessionLaps) : SessionLaps[i].lap_number = n

\* C28: every surface shows a lap as its internal lap number plus one (the
\* lines of the info listing and its best-lap line, the rows of the GUI's
\* lap table and its best-lap card, the lap column of the CSV exports), so a number read from a
\* display and passed to the export command selects that same lap.
C28_Claim ==
    /\ call.op = "cmd_info" =>
          /\ \A i \in 1..Len(SessionLaps) :
                ShownAs(Val(call.result).rows[i].lap, i)
          /\ Val(call.result).best_lap # None =>
                \E i \in 1..Len(SessionLaps) :
                    /\ ShownAs(Val(Val(call.result).best_lap), i)
                    /\ SessionLaps[i].lap_time # None
    /\ call.op = "_load_session_details" =>
          /\ \A i \in 1..Len(SessionLaps) :
                Val(call.result)[i] # None =>
                    ShownAs(Val(Val(call.result)[i]).lap_number, i)
          /\ (\E j \in 1..Len(SessionLaps) : truthy(SessionLaps[j].lap_time)) =>
                /\ gui.best_lap_subtitle # None
                /\ \E i \in 1..Len(SessionLaps) :
                      /\ ShownAs(Val(gui.best_lap_subtitle), i)
                      /\ SessionLaps[i].lap_time = gui.best_lap_label
                      /\ \A j \in 1..Len(SessionLaps) :
                            truthy(SessionLaps[j].lap_time) =>
                                Val(SessionLaps[i].lap_time)
                                    <= Val(SessionLaps[j].lap_time)
    /\ (call.op = "export_complete_session_to_csv" /\ call.result # None) =>
          \A i \in 1..Len(SessionLaps) :
              \A k \in 1..Len(Val(call.result)[i]) :
                  ShownAs(Val(call.result)[i][k].lap, i)
    /\ (call.op = "export_lap_to_csv" /\ call.result # None) =>
          \A k \in 1..Len(Val(call.result).rows) :
              ShownAs(Val(call.result).rows[k].lap,
                      Numbered(Val(call.result).lap_data.lap_number))

\* ======================= C29 =============================================
\* the poll opened a session
Opened == Store'.session_id # Store.session_id /\ Active'

\* C29: every sample for which process_telemetry returns True is appended
\* to the lap that is open once the session and lap transitions of that
\* sample are done: a sample that completes a lap is the first sample of
\* the new open lap and is not in the lap it closed, and a sample that
\* changes the session is the first sample of lap 0 of the new session.
C29_Theorem ==
    [][(PollStep /\ ret') =>
          /\ Active'
          /\ OpenLap'.telemetry # <<>>
          /\ Last(OpenLap'.telemetry) = Sample'
          /\ event'.completed =>
                /\ OpenLap'.telemetry = <<Sample'>>
                /\ OpenLap'.lap_number = OpenLap.lap_number + 1
                /\ Last(StoredLaps').telemetry = OpenLap.telemetry
                /\ Last(StoredLaps').lap_number = OpenLap.lap_number
          /\ Opened =>
                /\ OpenLap'.telemetry = <<Sample'>>
                /\ OpenLap'.lap_number = 0
                /\ StoredLaps' = <<>>
          /\ (~event'.completed /\ ~Opened) =>
                /\ OpenLap'.telemetry = Append(OpenLap.telemetry, Sample')
                /\ LapsKept]_vars

\* the second sample completed lap 0, which holds the first sample only,
\* and the third changed the session: it is the only sample of lap 0 of
\* the new session
C29_Witness ==
    /\ Capturing
    /\ ret
    /\ Len(disk) = 1
    /\ Len(disk[1].data.laps) = 1
    /\ disk[1].data.laps[1].telemetry = <<[time |-> 1]>>
    /\ StoredLaps = <<>>
    /\ OpenLap.lap_number = 0
    /\ OpenLap.telemetry = <<Sample>>
    /\ Sample.time = 3

\* ======================= C30 =============================================
\* C30: the first sample processed in a session that has just been opened
\* (at the start, after a session change, after a reconnect, after a
\* deferred open) completes no lap, whatever its lap counter and whatever
\* lap counter was observed before: it only seeds the observed lap counter.
\* The same holds for any sample processed while no lap counter has been
\* observed in the session.
C30_Theorem ==
    [][(PollStep /\ ret' /\ (Opened \/ capture.current_lap = None)) =>
          /\ event' = Quiet
          /\ capture'.current_lap = Val(seen').Lap
          /\ capture'.best_lap_time = None
          /\ Opened => StoredLaps' = <<>>
          /\ ~Opened => LapsKept]_vars

\* a session in which a lap was completed was closed by a session change
\* whose sample has the highest lap counter: the new session has no lap
\* stored and has taken that counter as the observed one
C30_Witness ==
    /\ Capturing
    /\ ret
    /\ Len(disk) = 1
    /\ Len(disk[1].data.laps) = 1
    /\ Store.session_id # Some(disk[1].path)
    /\ StoredLaps = <<>>
    /\ Len(hist) = 1
    /\ capture.current_lap = Some(MaxLap)
    /\ capture.best_lap_time = None

\* ======================= C31 =============================================
\* the last poll should have opened a session and could not: it called
\* initialize_new_session, the metadata was unavailable and the call failed
Deferred ==
    /\ pc = "polling"
    /\ seen # None
    /\ ~ret
    /\ Val(seen).info = Some(FALSE)

\* C31: after a deferred session open every following poll tries again to
\* open the session (it asks for the metadata), and the first one that
\* finds the metadata opens a new session whose only sample is its own.
C31_Claim ==
    [][(Deferred /\ PollStep) =>
          /\ Val(seen').info # None
          /\ Val(seen').info = Some(TRUE) =>
                /\ ret'
                /\ Opened
                /\ OpenLap'.telemetry = <<Sample'>>]_vars

\* ======================= C32 =============================================
\* the loop finds the provider gone: the iteration ends waiting for the
\* provider, or, when the save has raised, in the loop's handler with the
\* store changed and no sample polled
LossStep ==
    /\ pc = "polling"
    /\ \/ pc' = "waiting"
       \/ pc' = "polling" /\ polls' = polls /\ capture' # capture

\* the record of the active session with its open lap as the last lap
RecordWithOpenLap ==
    [path |-> Val(Store.session_id),
     data |-> [metadata |-> [Val(Store.metadata) EXCEPT
                                !.total_laps = Len(StoredLaps) + 1],
               laps |-> Append(StoredLaps, OpenLap)]]

\* NoSession: no session in the store, nothing recorded by the segmenter
NoSession ==
    /\ Store = NewStorage
    /\ capture.current_session_num = None
    /\ capture.current_lap = None
    /\ capture.best_lap_time = None

\* the connection was lost after an accepted sample and is back; no sample
\* has been polled since
Reconnected == pc = "polling" /\ seen # None /\ ret /\ ~Active

\* the poll opened lap 0 of a session with an id that no record has
FreshSession ==
    /\ ret'
    /\ Opened
    /\ \A i \in 1..Len(disk') : Store'.session_id # Some(disk'[i].path)
    /\ Store'.current_lap_number = Some(0)
    /\ StoredLaps' = <<>>
    /\ OpenLap'.lap_number = 0
    /\ OpenLap'.telemetry = <<Sample'>>
    /\ capture'.best_lap_time = None

\* on a lost connection the session is written with its open lap and the
\* segmenter is back in NoSession
C32_Loss ==
    LossStep =>
        /\ disk' = IF Active THEN Append(disk, RecordWithOpenLap) ELSE disk
        /\ NoSession'

\* C32: when the connection is lost the current session is written with
\* its open lap included and the store, the recorded session identifier, the
\* observed lap counter and the best lap time are cleared, so that after a
\* reconnect the next sample opens lap 0 of a session with a fresh id.
C32_Claim ==
    [][/\ C32_Loss
       /\ (Reconnected /\ PollStep) => FreshSession]_vars

\* ======================= C33 =============================================
\* the poll destroyed or replaced the session that was active
Replaced == PollStep /\ Active /\ Store'.session_id # Store.session_id

\* C33: whenever process_telemetry resets or overwrites the active session,
\* that session was finalized first: if it holds a completed lap, its record
\* with the completed laps has been written, whatever the recorded session
\* identifier is.
C33_Claim ==
    [][(Replaced /\ Len(StoredLaps) >= 1) =>
          /\ Len(disk') = Len(disk) + 1
          /\ Last(disk').path = Val(Store.session_id)
          /\ Last(disk').data.laps = StoredLaps]_vars

\* ======================= C34 =============================================
\* the poll carries the session identifier that the last poll, accepted
\* into the session still open, carried
SameIdentifier ==
    /\ PollStep
    /\ Active
    /\ ret
    /\ Val(seen).SessionNum # None
    /\ Val(seen').SessionNum = Val(seen).SessionNum

\* C34: a sample that carries a session identifier and is accepted leaves
\* that identifier recorded, in particular when it opened the session; a
\* following sample with the same identifier is accepted into the same
\* session: nothing is written, the store is not reset and no session is
\* opened or asked for.
C34_Theorem ==
    [][/\ (PollStep /\ ret' /\ Tel'.session_num # None) =>
             capture'.current_session_num = Tel'.session_num
       /\ SameIdentifier =>
             /\ ret'
             /\ Store'.session_id = Store.session_id
             /\ capture'.current_session_num = capture.current_session_num
             /\ disk' = disk
             /\ next_uuid' = next_uuid
             /\ Val(seen').info = None
             /\ Len(hist') = Len(hist) + 1]_vars

\* one session was opened, by a sample that carried an identifier, and the
\* two samples after it went into the same session, the last one carrying
\* the same identifier
C34_Witness ==
    /\ Capturing
    /\ ret
    /\ next_uuid = 2
    /\ Len(hist) = 3
    /\ disk = <<>>
    /\ Val(seen).SessionNum = Some(MaxSessionNum)
    /\ capture.current_session_num = Some(MaxSessionNum)

\* ======================= C35 =============================================
\* C35: between two polls of a session, the samples of the stored laps in
\* lap order followed by the samples of the open lap are exactly the samples
\* accepted since the session was opened, in the order of arrival.
C35_Claim ==
    (pc = "polling" /\ Active) =>
        /\ Store.current_lap # None
        /\ AllSamples(StoredLaps) \o OpenLap.telemetry = Times(hist)

\* ======================= C36 =============================================
\* C36: while the capture loop runs and the store has a session, there is
\* an open lap, and its lap number (and the store's current lap number) is
\* the number of laps in the session's lap sequence.
C36_Claim ==
    (pc # "stopped" /\ Active) =>
        /\ Store.current_lap # None
        /\ OpenLap.lap_number = Len(StoredLaps)
        /\ Store.current_lap_number = Some(Len(StoredLaps))

\* ======================= C37 =============================================
\* C37: no two writes of a run of the capture loop are of the same session:
\* every record written has a path of its own.
C37_Claim ==
    \A i, j \in 1..Len(disk) : disk[i].path = disk[j].path => i = j

\* ======================= C38 =============================================
\* the step is a call of finalize_session(True) on an active session, right
\* after another call of finalize_session(True)
FinalizedAgain ==
    /\ FinalizeStep
    /\ Include'
    /\ Active
    /\ call.op = "finalize_session"
    /\ Include

\* C38: a second finalize_session(True) in a row on the same active session
\* leaves the lap sequence and total_laps as the first call left them, and
\* writes the same record to the same location.
C38_Claim ==
    [][FinalizedAgain =>
          /\ StoredLaps' = StoredLaps
          /\ Val(Store'.metadata).total_laps = Val(Store.metadata).total_laps
          /\ call'.result = call.result
          /\ call.result # None =>
                /\ Len(disk') = Len(disk) + 1
                /\ Last(disk') = Last(disk)]_vars

\* ======================= C39 =============================================
\* the stop flag is cleared and the capture worker has not terminated
StopRequested == ~gui.is_capturing /\ capture_running(gui)

\* C39: once the stop flag is cleared the capture worker terminates, in
\* whatever state it is, so that _start_capture no longer finds a running
\* capture.
C39_Claim == StopRequested ~> ~capture_running(gui)

====
